---- MODULE Spec2Model ----
(***************************************************************************)
(* Render-and-cache pipeline of the chart service:                         *)
(*   RedisService           (src/src/services/redis.ts, lines 4-89)        *)
(*   ChartGeneratorService  (src/src/services/redis.ts, lines 99-576)      *)
(*   GET /:hash/png         (src/src/routes/charts.ts, lines 325-382)      *)
(*                                                                         *)
(* Text is modelled as a sequence of atoms.  An atom is a piece of text    *)
(* (an enum name, a word, a fixed run of a template, one decimal or        *)
(* hexadecimal digit) or one punctuation character; the atoms of a cache   *)
(* key contain no ':' and no '*'.  Numbers are printed digit by digit and  *)
(* digests are sequences of hex digits, so prefix, substring and glob      *)
(* matching act on them as they do on characters.                          *)
(***************************************************************************)
EXTENDS Integers, Sequences, FiniteSets, TLC

(***************************************************************************)
(* Bounds of the model.                                                    *)
(***************************************************************************)
\* width of a digest and of a chart hash in bytes (16 in the program)
DigestBytes == 2

(***************************************************************************)
(* JavaScript values.                                                      *)
(***************************************************************************)
JNum(num) == [t |-> "num", n |-> num]
JStr(str) == [t |-> "str", s |-> str]
JArr(elems) == [t |-> "arr", e |-> elems]
JObj(fields) == [t |-> "obj", f |-> fields]
JUndef == [t |-> "undef"]
JNull == [t |-> "null"]
JBool(b) == [t |-> "bool", b |-> b]
\* a number with one decimal place
JDec(int, tenths) == [t |-> "dec", i |-> int, d |-> tenths]
Field(key, val) == [k |-> key, v |-> val]

\* obj[k]: the value of property k, undefined when the object has none
Get(obj, k) ==
  IF \E i \in 1..Len(obj.f) : obj.f[i].k = k
  THEN obj.f[CHOOSE i \in 1..Len(obj.f) : obj.f[i].k = k].v
  ELSE JUndef

Keys(obj) == {obj.f[i].k : i \in 1..Len(obj.f)}

\* {...obj, k: v}: the property keeps its place when obj has it already
Put(obj, k, v) ==
  IF k \in Keys(obj)
  THEN JObj([i \in 1..Len(obj.f) |->
              IF obj.f[i].k = k THEN Field(k, v) ELSE obj.f[i]])
  ELSE JObj(Append(obj.f, Field(k, v)))

\* what a condition makes of a value
Truthy(v) ==
  CASE v.t \in {"undef", "null"} -> FALSE
    [] v.t = "bool" -> v.b
    [] v.t = "num" -> v.n # 0
    [] v.t = "dec" -> v.i # 0 \/ v.d # 0
    [] v.t = "str" -> v.s # <<>>
    [] OTHER -> TRUE

\* two values are equal as structures: same properties with equal values,
\* whatever the order in which the properties are enumerated
RECURSIVE StructEq(_, _)
StructEq(a, b) ==
  IF a.t # b.t THEN FALSE
  ELSE CASE a.t = "obj" ->
              /\ Len(a.f) = Len(b.f)
              /\ Keys(a) = Keys(b)
              /\ \A k \in Keys(a) : StructEq(Get(a, k), Get(b, k))
         [] a.t = "arr" ->
              /\ Len(a.e) = Len(b.e)
              /\ \A i \in 1..Len(a.e) : StructEq(a.e[i], b.e[i])
         [] OTHER -> a = b

(***************************************************************************)
(* Text.                                                                   *)
(***************************************************************************)
Digits == <<"0", "1", "2", "3", "4", "5", "6", "7", "8", "9">>
HexDigits == Digits \o <<"a", "b", "c", "d", "e", "f">>

Vocab ==
  HexDigits \o
  <<"{", "}", "[", "]", ":", ",", "\"", "null", "#",
    "data", "options", "labels", "datasets", "label",
    "width", "height", "theme", "title", "backgroundColor",
    "borderColor", "borderWidth",
    "Jan", "Feb", "Sales", "Costs", "Revenue",
    "light", "dark", "custom", "bar", "line", "pie",
    "ffffff", "1a1a1a",
    "true", "false", ".", "type", "doughnut", "radar", "polarArea",
    "scatter", "bubble", "mixed",
    "3b82f6", "ef4444", "10b981", "f59e0b", "8b5cf6", "ec4899",
    "60a5fa", "f87171", "34d399", "fbbf24", "a78bfa", "f472b6",
    "000000", "374151", "e5e7eb",
    "responsive", "maintainAspectRatio", "plugins", "legend", "display",
    "position", "top", "color", "font", "size", "weight", "bold",
    "padding", "text", "scales", "x", "y", "r", "ticks", "grid",
    "pointLabels", "elements", "point", "radius", "hoverRadius",
    "tension",
    "<!DOCTYPE html> ... body { margin: 0; padding: 0; background: ",
    "; } #chart-container { width: ",
    "px; height: ",
    "px; background: ",
    "; } ... getContext('2d'); new Chart(ctx, ",
    "); </script> </body> </html>">>

\* code of an atom, used where the program reads the bytes of a text
OrdOf ==
  [a \in {Vocab[i] : i \in 1..Len(Vocab)} |->
     CHOOSE i \in 1..Len(Vocab) : Vocab[i] = a]

\* String(n) for a non-negative integer, as in a template literal
RECURSIVE ToDecimal(_)
ToDecimal(n) ==
  IF n < 10 THEN <<Digits[n + 1]>>
  ELSE ToDecimal(n \div 10) \o <<Digits[(n % 10) + 1]>>

RECURSIVE StringifyElems(_, _), StringifyFields(_, _), JSONstringify(_)

\* JSON.stringify: properties in enumeration order, undefined properties
\* left out, undefined array elements written as null
JSONstringify(v) ==
  CASE v.t = "num" -> ToDecimal(v.n)
    [] v.t = "str" -> <<"\"">> \o v.s \o <<"\"">>
    [] v.t = "bool" -> IF v.b THEN <<"true">> ELSE <<"false">>
    [] v.t = "dec" -> ToDecimal(v.i) \o <<".">> \o ToDecimal(v.d)
    [] v.t = "null" -> <<"null">>
    [] v.t = "undef" -> <<"null">>
    [] v.t = "arr" -> <<"[">> \o StringifyElems(v.e, 1) \o <<"]">>
    [] v.t = "obj" ->
         <<"{">> \o StringifyFields(SelectSeq(v.f, LAMBDA p : p.v.t # "undef"), 1)
                 \o <<"}">>

StringifyElems(e, i) ==
  IF i > Len(e) THEN <<>>
  ELSE (IF i > 1 THEN <<",">> ELSE <<>>)
         \o JSONstringify(e[i]) \o StringifyElems(e, i + 1)

StringifyFields(f, i) ==
  IF i > Len(f) THEN <<>>
  ELSE (IF i > 1 THEN <<",">> ELSE <<>>)
         \o <<"\"", f[i].k, "\"", ":">> \o JSONstringify(f[i].v)
         \o StringifyFields(f, i + 1)

(***************************************************************************)
(* crypto.createHash('md5').update(text).digest('hex'): a fixed-width      *)
(* digest of the bytes of the text, printed in lower-case hex.  The digest *)
(* is DigestBytes wide instead of 16 bytes.                                *)
(***************************************************************************)
DigestLen == 2 * DigestBytes

RECURSIVE Pow16(_)
Pow16(n) == IF n = 0 THEN 1 ELSE 16 * Pow16(n - 1)

DigestSpace == Pow16(DigestLen)

\* the weight of the i-th atom of a text
Weight(i) == 1 + ((i * i * 7 + i * 37) % 1021)

\* the sum of the weighted atoms lo..hi of a text, halving the range
RECURSIVE WeightedSum(_, _, _)
WeightedSum(text, lo, hi) ==
  IF lo > hi THEN 0
  ELSE IF lo = hi THEN OrdOf[text[lo]] * Weight(lo)
  ELSE LET mid == (lo + hi) \div 2
       IN (WeightedSum(text, lo, mid) + WeightedSum(text, mid + 1, hi))
            % DigestSpace

DigestOf(text) == (5381 + WeightedSum(text, 1, Len(text))) % DigestSpace

RECURSIVE ToHex(_, _)
ToHex(n, len) ==
  IF len = 0 THEN <<>>
  ELSE ToHex(n \div 16, len - 1) \o <<HexDigits[(n % 16) + 1]>>

Md5Hex(text) == ToHex(DigestOf(text), DigestLen)

\* the cache key, were the theme not written into it
generateCacheKeyWithoutTheme(chartType, data, options) ==
  <<"chart_cache", ":", chartType, ":">>
    \o ToDecimal(Get(options, "width").n) \o <<":">>
    \o ToDecimal(Get(options, "height").n) \o <<":">>
    \o Md5Hex(JSONstringify(JObj(<<Field("data", data)>>)))

(***************************************************************************)
(* ChartGeneratorService.generateCacheKey                                  *)
(***************************************************************************)
VARIABLES kin, kout

\* the template literal prints a number in decimal and a string as it is
TemplateText(v) == IF v.t = "num" THEN ToDecimal(v.n) ELSE v.s

generateCacheKey(chartType, data, options) ==
  LET dataHash == Md5Hex(JSONstringify(JObj(<<Field("data", data),
                                               Field("options", options)>>)))
  IN <<"chart_cache", ":", chartType, ":">>
       \o TemplateText(Get(options, "width")) \o <<":">>
       \o TemplateText(Get(options, "height")) \o <<":">>
       \o TemplateText(Get(options, "theme")) \o <<":">>
       \o dataHash

(***************************************************************************)
(* Inputs of the key derivation.                                           *)
(***************************************************************************)
Sales == JObj(<<Field("label", JStr(<<"Sales">>)),
                Field("data", JArr(<<JNum(10), JNum(20)>>))>>)
\* Sales with its properties enumerated in the other order
SalesSwapped == JObj(<<Field("data", JArr(<<JNum(10), JNum(20)>>)),
                       Field("label", JStr(<<"Sales">>))>>)
Costs == JObj(<<Field("label", JStr(<<"Costs">>)),
                Field("data", JArr(<<JNum(7), JNum(3)>>))>>)
JanFeb == JArr(<<JStr(<<"Jan">>), JStr(<<"Feb">>)>>)

DataSales == JObj(<<Field("labels", JanFeb), Field("datasets", JArr(<<Sales>>))>>)
DataSalesSwapped ==
  JObj(<<Field("datasets", JArr(<<Sales>>)), Field("labels", JanFeb)>>)
DataSalesNested ==
  JObj(<<Field("labels", JanFeb), Field("datasets", JArr(<<SalesSwapped>>))>>)
DataTwo ==
  JObj(<<Field("labels", JanFeb), Field("datasets", JArr(<<Sales, Costs>>))>>)

DataInputs == {DataSales, DataSalesSwapped, DataSalesNested, DataTwo}

White == JStr(<<"#", "ffffff">>)
Black == JStr(<<"#", "1a1a1a">>)

OptLight == JObj(<<Field("width", JNum(800)), Field("height", JNum(600)),
                   Field("theme", JStr(<<"light">>)), Field("title", JUndef),
                   Field("backgroundColor", White)>>)
OptLightSwapped ==
  JObj(<<Field("height", JNum(600)), Field("width", JNum(800)),
         Field("theme", JStr(<<"light">>)), Field("title", JUndef),
         Field("backgroundColor", White)>>)
OptDark == JObj(<<Field("width", JNum(400)), Field("height", JNum(300)),
                  Field("theme", JStr(<<"dark">>)),
                  Field("title", JStr(<<"Revenue">>)),
                  Field("backgroundColor", Black)>>)

\* OptLight with another width, another height, another theme
OptWide == Put(OptLight, "width", JNum(1200))
OptTall == Put(OptLight, "height", JNum(1200))
OptDim == Put(OptLight, "theme", JStr(<<"dark">>))

OptionInputs == {OptLight, OptLightSwapped, OptDark, OptWide, OptTall, OptDim}

KeyInputs ==
  [chartType : {"bar", "line"}, data : DataInputs, options : OptionInputs]

NoKey == <<>>

(***************************************************************************)
(* Buffer.toString('base64') and Buffer.from(text, 'base64').  A buffer is *)
(* a sequence of bytes, its base64 text a sequence of characters.          *)
(***************************************************************************)
B64 ==
  <<"A", "B", "C", "D", "E", "F", "G", "H", "I", "J", "K", "L", "M",
    "N", "O", "P", "Q", "R", "S", "T", "U", "V", "W", "X", "Y", "Z",
    "a", "b", "c", "d", "e", "f", "g", "h", "i", "j", "k", "l", "m",
    "n", "o", "p", "q", "r", "s", "t", "u", "v", "w", "x", "y", "z",
    "0", "1", "2", "3", "4", "5", "6", "7", "8", "9", "+", "/">>

B64Index(ch) == (CHOOSE i \in 1..64 : B64[i] = ch) - 1

RECURSIVE Base64Encode(_)
Base64Encode(b) ==
  IF Len(b) = 0 THEN <<>>
  ELSE IF Len(b) = 1 THEN
    <<B64[(b[1] \div 4) + 1], B64[((b[1] % 4) * 16) + 1], "=", "=">>
  ELSE IF Len(b) = 2 THEN
    <<B64[(b[1] \div 4) + 1],
      B64[((b[1] % 4) * 16 + (b[2] \div 16)) + 1],
      B64[((b[2] % 16) * 4) + 1], "=">>
  ELSE
    <<B64[(b[1] \div 4) + 1],
      B64[((b[1] % 4) * 16 + (b[2] \div 16)) + 1],
      B64[((b[2] % 16) * 4 + (b[3] \div 64)) + 1],
      B64[(b[3] % 64) + 1]>> \o Base64Encode(SubSeq(b, 4, Len(b)))

RECURSIVE DecodeSextets(_)
DecodeSextets(x) ==
  IF Len(x) < 2 THEN <<>>
  ELSE IF Len(x) = 2 THEN <<x[1] * 4 + (x[2] \div 16)>>
  ELSE IF Len(x) = 3 THEN
    <<x[1] * 4 + (x[2] \div 16), (x[2] % 16) * 16 + (x[3] \div 4)>>
  ELSE
    <<x[1] * 4 + (x[2] \div 16), (x[2] % 16) * 16 + (x[3] \div 4),
      (x[3] % 4) * 64 + x[4]>> \o DecodeSextets(SubSeq(x, 5, Len(x)))

\* Base64Decode, were a last group that is padded left out
Base64DecodeWholeGroups(text) ==
  LET data == SelectSeq(text, LAMBDA ch : \E i \in 1..64 : B64[i] = ch)
  IN DecodeSextets([i \in 1..(4 * (Len(data) \div 4)) |-> B64Index(data[i])])

\* characters outside the alphabet (the padding) carry no data
Base64Decode(text) ==
  LET data == SelectSeq(text, LAMBDA ch : \E i \in 1..64 : B64[i] = ch)
  IN DecodeSextets([i \in 1..Len(data) |-> B64Index(data[i])])

(***************************************************************************)
(* Redis glob patterns: '*' matches any text, every other atom itself.     *)
(***************************************************************************)
RECURSIVE GlobMatch(_, _)
GlobMatch(p, s) ==
  IF p = <<>> THEN s = <<>>
  ELSE IF Head(p) = "*"
       THEN GlobMatch(Tail(p), s) \/ (s # <<>> /\ GlobMatch(p, Tail(s)))
       ELSE s # <<>> /\ Head(s) = Head(p) /\ GlobMatch(Tail(p), Tail(s))

(***************************************************************************)
(* Program constants.                                                      *)
(***************************************************************************)
DefaultWidth == 800
DefaultHeight == 600
maxRetries == 3
RetryDelayMs == 1000
CacheTtlSeconds == 3600

(***************************************************************************)
(* Bounds of the pipeline.                                                 *)
(***************************************************************************)
\* generateChart calls in one behaviour
MaxCalls == 2

Calls == 1..MaxCalls

(***************************************************************************)
(* State.                                                                  *)
(*   redisUp  the Redis server answers the client's commands               *)
(*   cache    the Redis keyspace: key -> [val, ttl] (ttl 0: no expiry)     *)
(*   written  for every key of cache, the call that wrote the entry: the   *)
(*            chart it rendered and the bytes it returned                  *)
(*   charts   the charts table: chart_hash -> row                          *)
(*   calls    the generateChart calls: locals and position of each         *)
(*   procs    the browser processes: those running, and those that have   *)
(*            exited while the call that launched them is still there      *)
(*   inval    the invalidation in progress                                 *)
(***************************************************************************)
VARIABLES redisUp, cache, written, charts, calls, procs, inval

\* the clock, process.env.API_KEY, the request a route other than
\* GET /:hash/png is serving, and the rows of chart_access_logs the
\* requests being served have inserted (0 is that request, a number of
\* Calls a request for GET /:hash/png)
VARIABLES now, apiKeyEnv, http, accessLogs

keyVars == <<kin, kout>>
apiVars == <<now, apiKeyEnv, http, accessLogs>>
vars ==
  <<kin, kout, now, apiKeyEnv, http, accessLogs,
    redisUp, cache, written, charts, calls, procs, inval>>

NoChart == <<>>
NoBuffer == [some |-> FALSE, bytes |-> <<>>]
SomeBuffer(b) == [some |-> TRUE, bytes |-> b]

(***************************************************************************)
(* The Redis client: a command sent to a server that is down is rejected.  *)
(* A missing value (null) is the empty text.                               *)
(***************************************************************************)
ClientPing(up) == [threw |-> ~up]

ClientGet(up, store, key) ==
  [threw |-> ~up,
   val |-> IF up /\ key \in DOMAIN store THEN store[key].val ELSE <<>>]

ClientSetEx(up, store, key, ttlSeconds, text) ==
  [threw |-> ~up,
   store |-> IF up
             THEN [k \in DOMAIN store \cup {key} |->
                     IF k = key THEN [val |-> text, ttl |-> ttlSeconds]
                     ELSE store[k]]
             ELSE store]

(***************************************************************************)
(* RedisService.  Every method catches what the client throws; threw is    *)
(* what the method itself throws, which the callers' catch clauses read.   *)
(***************************************************************************)
\* isAvailable, were the error of the ping thrown on
isAvailableRethrows(up) ==
  LET r == ClientPing(up) IN [threw |-> r.threw, val |-> ~r.threw]

\* isAvailable: a ping that fails gives false
isAvailable(up) ==
  LET r == ClientPing(up) IN [threw |-> FALSE, val |-> ~r.threw]

\* get: null for a missing key, an empty text or a failed command
RedisGet(up, store, key) ==
  LET r == ClientGet(up, store, key)
  IN [threw |-> FALSE,
      val |-> IF ~r.threw /\ r.val # <<>>
              THEN SomeBuffer(Base64Decode(r.val))
              ELSE NoBuffer]

\* set: SETEX key ttl base64(value); a failed command changes nothing
RedisSet(up, store, key, value, ttlSeconds) ==
  LET r == ClientSetEx(up, store, key, ttlSeconds, Base64Encode(value))
  IN [threw |-> FALSE, ok |-> ~r.threw, store |-> r.store]

\* KEYS pattern
RedisKeys(store, pattern) == {k \in DOMAIN store : GlobMatch(pattern, k)}

\* DEL keys
RedisDel(store, keys) == [k \in DOMAIN store \ keys |-> store[k]]

\* del: DEL key; a failed command changes nothing
RedisDelKey(up, store, key) ==
  [threw |-> FALSE,
   store |-> IF up THEN RedisDel(store, {key}) ELSE store]

\* delPattern, its KEYS: the keys to delete, none when the command failed
delPatternKeys(up, store, pattern) ==
  [threw |-> FALSE, failed |-> ~up,
   keys |-> IF up THEN RedisKeys(store, pattern) ELSE {}]

\* delPattern, its DEL; a failed command changes nothing
delPatternDel(up, store, keys) ==
  [threw |-> FALSE, failed |-> ~up,
   store |-> IF up THEN RedisDel(store, keys) ELSE store]

(***************************************************************************)
(* ChartGeneratorService.generateChart                                     *)
(***************************************************************************)
Default(v, d) == IF v.t = "undef" THEN d ELSE v

\* lines 139-147: the defaults, and the options object handed on
ResolveOptions(options) ==
  LET width == Default(Get(options, "width"), JNum(DefaultWidth))
      height == Default(Get(options, "height"), JNum(DefaultHeight))
      theme == Default(Get(options, "theme"), JStr(<<"light">>))
      title == Get(options, "title")
      backgroundColor ==
        Default(Get(options, "backgroundColor"),
                IF theme = JStr(<<"dark">>) THEN Black ELSE White)
  IN JObj(<<Field("width", width), Field("height", height),
            Field("theme", theme), Field("title", title),
            Field("backgroundColor", backgroundColor)>>)

\* validation.ts 8-10 and 12-15: the chart types and themes a request may
\* name
ChartTypes ==
  {"line", "bar", "pie", "doughnut", "radar", "polarArea", "scatter",
   "bubble", "mixed"}
Themes == {"light", "dark", "custom"}

\* lines 435-449
typeMap == [t \in ChartTypes |-> IF t = "mixed" THEN "line" ELSE t]

mapCustomChartType(customType) ==
  IF customType \in DOMAIN typeMap THEN typeMap[customType] ELSE "line"

Colour(hex) == JStr(<<"#", hex>>)

\* lines 461-484: one palette per theme, the same for every chart type
LightPalette ==
  JArr(<<Colour("3b82f6"), Colour("ef4444"), Colour("10b981"),
         Colour("f59e0b"), Colour("8b5cf6"), Colour("ec4899")>>)
DarkPalette ==
  JArr(<<Colour("60a5fa"), Colour("f87171"), Colour("34d399"),
         Colour("fbbf24"), Colour("a78bfa"), Colour("f472b6")>>)

colorPalettes ==
  [light |-> [t \in ChartTypes |-> LightPalette],
   dark |-> [t \in ChartTypes |-> DarkPalette]]

\* the TypeError of reading a property of undefined
TypeErrorReading(property) ==
  <<"Cannot read properties of undefined (reading '", property, "')">>

\* lines 451-487: the colours given, or else the palette of the theme, whole;
\* a theme without palettes makes the lookup at 486 throw
getBackgroundColors(providedColors, chartType, theme) ==
  IF Truthy(providedColors)
  THEN [threw |-> FALSE, msg |-> <<>>, val |-> providedColors]
  ELSE IF theme \notin DOMAIN colorPalettes
  THEN [threw |-> TRUE, msg |-> TypeErrorReading(chartType), val |-> JUndef]
  ELSE [threw |-> FALSE, msg |-> <<>>,
        val |-> IF chartType \in DOMAIN colorPalettes[theme]
                THEN colorPalettes[theme][chartType]
                ELSE colorPalettes[theme]["line"]]

\* lines 489-500
getBorderColors(providedColors, chartType, theme) ==
  IF Truthy(providedColors)
  THEN [threw |-> FALSE, msg |-> <<>>, val |-> providedColors]
  ELSE getBackgroundColors(JUndef, chartType, theme)

\* lines 502-557
getScaleOptions(chartType, theme) ==
  LET textColor == IF theme = "dark" THEN Colour("ffffff") ELSE Colour("000000")
      gridColor == IF theme = "dark" THEN Colour("374151") ELSE Colour("e5e7eb")
      ticks(size) ==
        JObj(<<Field("color", textColor),
               Field("font", JObj(<<Field("size", JNum(size))>>))>>)
      axis ==
        JObj(<<Field("ticks", ticks(11)),
               Field("grid", JObj(<<Field("color", gridColor),
                                    Field("borderColor", gridColor)>>))>>)
  IN IF chartType = "radar"
     THEN JObj(<<Field("r",
                   JObj(<<Field("ticks", ticks(11)),
                          Field("grid", JObj(<<Field("color", gridColor)>>)),
                          Field("pointLabels", ticks(12))>>))>>)
     ELSE JObj(<<Field("x", axis), Field("y", axis)>>)

\* lines 332-391: the Chart.js configuration, or what the colour lookup of
\* the first dataset that fails throws
createChartJsConfig(chartType, data, options) ==
  LET theme == Get(options, "theme").s[1]
      title == Get(options, "title")
      labels == Get(data, "labels")
      datasets == Get(data, "datasets").e
      textColor == IF theme = "dark" THEN Colour("ffffff") ELSE Colour("000000")
      bg(i) == getBackgroundColors(Get(datasets[i], "backgroundColor"),
                                   chartType, theme)
      bd(i) == getBorderColors(Get(datasets[i], "borderColor"),
                               chartType, theme)
      bw(i) == IF Truthy(Get(datasets[i], "borderWidth"))
               THEN Get(datasets[i], "borderWidth") ELSE JNum(2)
      failed == {i \in 1..Len(datasets) : bg(i).threw \/ bd(i).threw}
      first == CHOOSE i \in failed : \A j \in failed : i <= j
  IN IF failed # {}
     THEN [threw |-> TRUE, val |-> JUndef,
           msg |-> IF bg(first).threw THEN bg(first).msg ELSE bd(first).msg]
     ELSE
     [threw |-> FALSE, msg |-> <<>>,
      val |->
       JObj(<<
        Field("type", JStr(<<mapCustomChartType(chartType)>>)),
        Field("data", JObj(<<
          Field("labels", IF Truthy(labels) THEN labels ELSE JArr(<<>>)),
          Field("datasets", JArr(
            [i \in 1..Len(datasets) |->
               Put(Put(Put(datasets[i], "backgroundColor", bg(i).val),
                       "borderColor", bd(i).val),
                   "borderWidth", bw(i))]))>>)),
        Field("options", JObj(<<
          Field("responsive", JBool(TRUE)),
          Field("maintainAspectRatio", JBool(FALSE)),
          Field("plugins", JObj(<<
            Field("legend", JObj(<<
              Field("display", JBool(Len(datasets) > 1)),
              Field("position", JStr(<<"top">>)),
              Field("labels", JObj(<<
                Field("color", textColor),
                Field("font", JObj(<<Field("size", JNum(12))>>))>>))>>)),
            Field("title", JObj(<<
              Field("display", JBool(Truthy(title))),
              Field("text", title),
              Field("color", textColor),
              Field("font", JObj(<<Field("size", JNum(16)),
                                   Field("weight", JStr(<<"bold">>))>>)),
              Field("padding", JNum(20))>>))>>)),
          Field("scales", getScaleOptions(chartType, theme)),
          Field("elements", JObj(<<
            Field("point", JObj(<<Field("radius", JNum(4)),
                                  Field("hoverRadius", JNum(6))>>)),
            Field("line", JObj(<<Field("tension", JDec(0, 3))>>))>>))>>))>>)]

\* lines 219-225: the options createChartJsConfig is given; title only when
\* it is truthy
ConfigOptions(options) ==
  JObj(<<Field("width", Get(options, "width")),
         Field("height", Get(options, "height")),
         Field("theme", Get(options, "theme"))>>
       \o (IF Truthy(Get(options, "title"))
           THEN <<Field("title", Get(options, "title"))>> ELSE <<>>)
       \o <<Field("backgroundColor", Get(options, "backgroundColor"))>>)

\* lines 393-432: the document the page is given
generateHtmlContent(chartConfig, options) ==
  <<"<!DOCTYPE html> ... body { margin: 0; padding: 0; background: ">>
    \o TemplateText(Get(options, "backgroundColor"))
    \o <<"; } #chart-container { width: ">>
    \o TemplateText(Get(options, "width"))
    \o <<"px; height: ">>
    \o TemplateText(Get(options, "height"))
    \o <<"px; background: ">>
    \o TemplateText(Get(options, "backgroundColor"))
    \o <<"; } ... getContext('2d'); new Chart(ctx, ">>
    \o JSONstringify(chartConfig)
    \o <<"); </script> </body> </html>">>

\* the PNG the backend captures of a document: the signature, then pixels
PngOf(html) == <<137, 80, 78, 71, DigestOf(html) % 256>>

\* what the backend's steps fail with
BackendErrors ==
  {<<"Target closed">>, <<"Protocol error">>, <<"Navigation timeout">>}

Includes(msg, part) == \E i \in 1..Len(msg) : msg[i] = part

\* lines 308-318
ErrorMessage(msg) ==
  IF Includes(msg, "Target closed")
  THEN <<"Browser target closed unexpectedly. This may be due to resource constraints or timeout.">>
  ELSE IF Includes(msg, "Protocol error")
  THEN <<"Browser protocol error. The browser instance may have crashed.">>
  ELSE <<"Chart generation failed: ">> \o msg

\* no response sent yet
NoResponse == [status |-> 0, error |-> <<>>, body |-> NoBuffer]

IdleCall ==
  [pc |-> "idle", chartType |-> "", data |-> JNull, options |-> JNull,
   via |-> NoChart, cacheKey |-> NoKey, cachedChart |-> NoBuffer,
   browser |-> 0, launches |-> 0, polls |-> 0, retryCount |-> 0,
   delayMs |-> 0, screenshotBuffer |-> NoBuffer, reconnects |-> 0,
   stored |-> FALSE, errorMessage |-> <<>>, pending |-> "none",
   result |-> NoBuffer, response |-> NoResponse, htmlContent |-> <<>>]

Set(c, r) == calls' = [calls EXCEPT ![c] = r]

\* Throw, were there no finally clause
ThrowWithoutFinally(r, msg) ==
  [r EXCEPT !.errorMessage = ErrorMessage(msg),
            !.pending = "throw",
            !.pc = "thrown"]

\* catch (305-320), then finally (321-329): close() is awaited when a
\* browser was launched
Throw(r, msg) ==
  [r EXCEPT !.errorMessage = ErrorMessage(msg),
            !.pending = "throw",
            !.pc = IF r.browser # 0 THEN "close" ELSE "thrown"]

\* return (304), then finally
Return(r, bytes) ==
  [r EXCEPT !.result = SomeBuffer(bytes),
            !.pending = "return",
            !.pc = "close"]

\* lines 128-147, up to the first await
Begin(c, chartType, data, options, via) ==
  /\ calls[c].pc = "idle"
  \* a new call takes the lowest free place
  /\ \A d \in 1..(c - 1) : calls[d].pc # "idle"
  /\ LET o == ResolveOptions(options)
     IN Set(c, [calls[c] EXCEPT
                  !.pc = "probe", !.chartType = chartType, !.data = data,
                  !.options = o, !.via = via,
                  !.cacheKey = generateCacheKey(chartType, data, o)])
  /\ UNCHANGED <<keyVars, apiVars, redisUp, cache, written, charts, procs, inval>>

\* lines 165-167 and 289-290: disconnect(), then connect(); what connect()
\* throws is caught (168, 293)
Reconnect(r) == [r EXCEPT !.reconnects = @ + 1]

\* CacheProbe, were a cache that is not available an error
CacheProbeRequiresCache(c) ==
  /\ calls[c].pc = "probe"
  /\ LET a == isAvailable(redisUp)
     IN Set(c, IF a.val THEN [calls[c] EXCEPT !.pc = "get"]
               ELSE Throw(calls[c], <<"Redis is not available">>))
  /\ UNCHANGED <<keyVars, apiVars, redisUp, cache, written, charts, procs, inval>>

\* lines 152-171: await isAvailable()
CacheProbe(c) ==
  /\ calls[c].pc = "probe"
  /\ LET a == isAvailable(redisUp)
     IN Set(c, IF a.threw THEN [Reconnect(calls[c]) EXCEPT !.pc = "launch"]
               ELSE IF a.val THEN [calls[c] EXCEPT !.pc = "get"]
               ELSE [calls[c] EXCEPT !.pc = "launch"])
  /\ UNCHANGED <<keyVars, apiVars, redisUp, cache, written, charts, procs, inval>>

\* CacheGet, were the entry found not returned
CacheGetRendersAnyway(c) ==
  /\ calls[c].pc = "get"
  /\ LET g == RedisGet(redisUp, cache, calls[c].cacheKey)
     IN Set(c, [calls[c] EXCEPT !.cachedChart = g.val, !.pc = "launch"])
  /\ UNCHANGED <<keyVars, apiVars, redisUp, cache, written, charts, procs, inval>>

\* lines 154-171: await get(cacheKey); a hit returns before the render
CacheGet(c) ==
  /\ calls[c].pc = "get"
  /\ LET g == RedisGet(redisUp, cache, calls[c].cacheKey)
     IN Set(c, IF g.threw THEN [Reconnect(calls[c]) EXCEPT !.pc = "launch"]
               ELSE IF g.val.some
               THEN [calls[c] EXCEPT !.cachedChart = g.val,
                                     !.result = g.val,
                                     !.pending = "return",
                                     !.pc = "done"]
               ELSE [calls[c] EXCEPT !.pc = "launch"])
  /\ UNCHANGED <<keyVars, apiVars, redisUp, cache, written, charts, procs, inval>>

\* the process id the system gives the next process
NewPid == CHOOSE n \in 1..(Cardinality(procs) + 1) : \A p \in procs : p.pid # n

\* Launch, were a call to wait for a render of its key that is under way
LaunchSingleFlight(c) ==
  /\ calls[c].pc = "launch"
  /\ \A p \in procs :
       p.open => calls[p.owner].cacheKey # calls[c].cacheKey
  /\ \/ /\ procs' = procs \cup {[pid |-> NewPid, owner |-> c,
                                  open |-> TRUE, closes |-> 0]}
        /\ Set(c, [calls[c] EXCEPT !.pc = "newPage",
                                   !.launches = @ + 1,
                                   !.browser = NewPid])
     \/ /\ \E e \in BackendErrors :
             Set(c, Throw([calls[c] EXCEPT !.launches = @ + 1], e))
        /\ UNCHANGED procs
  /\ UNCHANGED <<keyVars, apiVars, redisUp, cache, written, charts, inval>>

\* Launch, were the browser of another call taken when one is open
LaunchReusesBrowser(c) ==
  /\ calls[c].pc = "launch"
  /\ IF \E p \in procs : p.open
     THEN /\ Set(c, [calls[c] EXCEPT
                       !.pc = "newPage", !.launches = @ + 1,
                       !.browser = (CHOOSE p \in procs : p.open).pid])
          /\ UNCHANGED procs
     ELSE /\ procs' = procs \cup {[pid |-> NewPid, owner |-> c,
                                   open |-> TRUE, closes |-> 0]}
          /\ Set(c, [calls[c] EXCEPT !.pc = "newPage",
                                     !.launches = @ + 1,
                                     !.browser = NewPid])
  /\ UNCHANGED <<keyVars, apiVars, redisUp, cache, written, charts, inval>>

\* lines 184-207: await puppeteer.launch()
Launch(c) ==
  /\ calls[c].pc = "launch"
  /\ \/ /\ procs' = procs \cup {[pid |-> NewPid, owner |-> c,
                                  open |-> TRUE, closes |-> 0]}
        /\ Set(c, [calls[c] EXCEPT !.pc = "newPage",
                                   !.launches = @ + 1,
                                   !.browser = NewPid])
     \/ /\ \E e \in BackendErrors :
             Set(c, Throw([calls[c] EXCEPT !.launches = @ + 1], e))
        /\ UNCHANGED procs
  /\ UNCHANGED <<keyVars, apiVars, redisUp, cache, written, charts, inval>>

\* line 209: await browser.newPage()
NewPage(c) ==
  /\ calls[c].pc = "newPage"
  /\ \/ Set(c, [calls[c] EXCEPT !.pc = "viewport"])
     \/ \E e \in BackendErrors : Set(c, Throw(calls[c], e))
  /\ UNCHANGED <<keyVars, apiVars, redisUp, cache, written, charts, procs, inval>>

\* lines 219-233: the configuration and the document; what
\* createChartJsConfig throws reaches the catch clause
BuildDocument(r) ==
  LET chartJsConfig ==
        createChartJsConfig(r.chartType, r.data, ConfigOptions(r.options))
  IN IF chartJsConfig.threw
     THEN Throw(r, chartJsConfig.msg)
     ELSE [r EXCEPT !.pc = "content",
                    !.htmlContent =
                      generateHtmlContent(chartJsConfig.val, r.options)]

\* lines 212-233: await page.setViewport(), a failure of which is logged,
\* then the document is built
SetViewport(c) ==
  /\ calls[c].pc = "viewport"
  /\ \/ Set(c, BuildDocument(calls[c]))
     \/ \E e \in BackendErrors : Set(c, BuildDocument(calls[c]))
  /\ UNCHANGED <<keyVars, apiVars, redisUp, cache, written, charts, procs, inval>>

\* lines 236-238: await page.setContent(networkidle0)
SetContent(c) ==
  /\ calls[c].pc = "content"
  /\ \/ Set(c, [calls[c] EXCEPT !.pc = "wait"])
     \/ \E e \in BackendErrors : Set(c, [calls[c] EXCEPT !.pc = "content2"])
  /\ UNCHANGED <<keyVars, apiVars, redisUp, cache, written, charts, procs, inval>>

\* SetContentFallback, were a failed second load to start the loading anew
SetContentFallbackReloads(c) ==
  /\ calls[c].pc = "content2"
  /\ \/ Set(c, [calls[c] EXCEPT !.pc = "wait"])
     \/ \E e \in BackendErrors : Set(c, [calls[c] EXCEPT !.pc = "content"])
  /\ UNCHANGED <<keyVars, apiVars, redisUp, cache, written, charts, procs, inval>>

\* lines 239-240: await page.setContent(domcontentloaded)
SetContentFallback(c) ==
  /\ calls[c].pc = "content2"
  /\ \/ Set(c, [calls[c] EXCEPT !.pc = "wait"])
     \/ \E e \in BackendErrors : Set(c, Throw(calls[c], e))
  /\ UNCHANGED <<keyVars, apiVars, redisUp, cache, written, charts, procs, inval>>

\* AfterFailedAttempt, were the comparison retryCount > maxRetries
AfterFailedAttemptOnceMore(r) ==
  LET n == r.retryCount + 1
  IN IF n > maxRetries
     THEN Throw([r EXCEPT !.retryCount = n],
                <<"Failed to render chart after ">> \o ToDecimal(maxRetries)
                  \o <<" attempts">>)
     ELSE [r EXCEPT !.retryCount = n, !.pc = "sleep"]

\* what a failed attempt leads to (252-260): the error after maxRetries
\* failures, the delay before the next attempt otherwise
AfterFailedAttempt(r) ==
  LET n == r.retryCount + 1
  IN IF n >= maxRetries
     THEN Throw([r EXCEPT !.retryCount = n],
                <<"Failed to render chart after ">> \o ToDecimal(maxRetries)
                  \o <<" attempts">>)
     ELSE [r EXCEPT !.retryCount = n, !.pc = "sleep"]

\* lines 248-251: await page.waitForSelector()
WaitForSelector(c) ==
  /\ calls[c].pc = "wait"
  /\ \/ Set(c, [calls[c] EXCEPT !.pc = "shot", !.polls = @ + 1])
     \/ \E e \in BackendErrors :
          Set(c, AfterFailedAttempt([calls[c] EXCEPT !.polls = @ + 1]))
  /\ UNCHANGED <<keyVars, apiVars, redisUp, cache, written, charts, procs, inval>>

\* line 259: the timer of RetryDelayMs fires
RetryDelay(c) ==
  /\ calls[c].pc = "sleep"
  /\ Set(c, [calls[c] EXCEPT !.pc = "wait", !.delayMs = @ + RetryDelayMs])
  /\ UNCHANGED <<keyVars, apiVars, redisUp, cache, written, charts, procs, inval>>

\* Screenshot, were a failed capture to return no bytes without an error
ScreenshotFailsSilently(c) ==
  /\ calls[c].pc = "shot"
  /\ \/ Set(c, [calls[c] EXCEPT
                  !.pc = "probe2",
                  !.screenshotBuffer =
                    SomeBuffer(PngOf(calls[c].htmlContent))])
     \/ \E e \in BackendErrors : Set(c, Return(calls[c], <<>>))
  /\ UNCHANGED <<keyVars, apiVars, redisUp, cache, written, charts, procs, inval>>

\* lines 264-274: await page.screenshot()
Screenshot(c) ==
  /\ calls[c].pc = "shot"
  /\ \/ Set(c, [calls[c] EXCEPT
                  !.pc = "probe2",
                  !.screenshotBuffer =
                    SomeBuffer(PngOf(calls[c].htmlContent))])
     \/ \E e \in BackendErrors :
          Set(c, Throw(calls[c], <<"Screenshot failed: ">> \o e))
  /\ UNCHANGED <<keyVars, apiVars, redisUp, cache, written, charts, procs, inval>>

\* StoreProbe, were the entry stored without asking whether the cache is
\* available
StoreProbeSkipped(c) ==
  /\ calls[c].pc = "probe2"
  /\ Set(c, [calls[c] EXCEPT !.pc = "set"])
  /\ UNCHANGED <<keyVars, apiVars, redisUp, cache, written, charts, procs, inval>>

\* lines 277-296: await isAvailable() before the store; were it to throw,
\* the catch clause reconnects and stores (292)
StoreProbe(c) ==
  /\ calls[c].pc = "probe2"
  /\ LET a == isAvailable(redisUp)
     IN Set(c, IF a.threw THEN [Reconnect(calls[c]) EXCEPT !.pc = "set"]
               ELSE IF a.val THEN [calls[c] EXCEPT !.pc = "set"]
               ELSE Return(calls[c], calls[c].screenshotBuffer.bytes))
  /\ UNCHANGED <<keyVars, apiVars, redisUp, cache, written, charts, procs, inval>>

\* line 281 (and 292): await set(cacheKey, screenshotBuffer, 3600), then
\* return (304)
CacheSet(c) ==
  /\ calls[c].pc = "set"
  /\ LET s == RedisSet(redisUp, cache, calls[c].cacheKey,
                       calls[c].screenshotBuffer.bytes, CacheTtlSeconds)
         r == [calls[c] EXCEPT !.stored = s.ok]
     IN /\ cache' = s.store
        /\ written' = [k \in DOMAIN s.store |->
                         IF k = calls[c].cacheKey /\ s.ok
                         THEN [via |-> calls[c].via,
                               bytes |-> calls[c].screenshotBuffer.bytes]
                         ELSE written[k]]
        /\ Set(c, IF s.threw /\ r.reconnects = 0
                  THEN [Reconnect(r) EXCEPT !.pc = "set"]
                  ELSE Return(r, r.screenshotBuffer.bytes))
  /\ UNCHANGED <<keyVars, apiVars, redisUp, charts, procs, inval>>

\* lines 321-329: await browser.close(); what close() throws is logged
Close(c) ==
  /\ calls[c].pc = "close"
  /\ procs' = {IF p.pid = calls[c].browser
                THEN [p EXCEPT !.open = FALSE, !.closes = @ + 1] ELSE p :
                p \in procs}
  /\ \/ Set(c, [calls[c] EXCEPT
                  !.pc = IF calls[c].pending = "return" THEN "done" ELSE "thrown"])
     \/ \E e \in BackendErrors :
          Set(c, [calls[c] EXCEPT
                    !.pc = IF calls[c].pending = "return" THEN "done" ELSE "thrown"])
  /\ UNCHANGED <<keyVars, apiVars, redisUp, cache, written, charts, inval>>

\* the caller has the bytes or the error; the call's frame is gone
CallerResumes(c) ==
  /\ \/ calls[c].pc \in {"done", "thrown"} /\ calls[c].via = NoChart
     \/ calls[c].pc = "responded"
  /\ Set(c, IdleCall)
  /\ procs' = {p \in procs : p.open \/ p.owner # c}
  /\ accessLogs' = [accessLogs EXCEPT ![c] = <<>>]
  /\ UNCHANGED <<keyVars, now, apiKeyEnv, http, redisUp, cache, written,
                 charts, inval>>

(***************************************************************************)
(* generateChart of the service that has no cache                          *)
(* (services/chartGenerator.ts).  Its steps carry the names of the cached  *)
(* service's, with the prefix Plain.                                       *)
(***************************************************************************)
\* catch (100-102), then finally (103-107)
PlainThrow(r, msg) ==
  [r EXCEPT !.errorMessage = <<"Chart generation failed: ">> \o msg,
            !.pending = "throw",
            !.pc = IF r.browser # 0 THEN "plainClose" ELSE "thrown"]

\* lines 16-44, up to the first await
PlainBegin(c, chartType, data, options) ==
  /\ calls[c].pc = "idle"
  /\ \A d \in 1..(c - 1) : calls[d].pc # "idle"
  /\ Set(c, [calls[c] EXCEPT
               !.pc = "plainLaunch", !.chartType = chartType, !.data = data,
               !.options = ResolveOptions(options)])
  /\ UNCHANGED <<keyVars, apiVars, redisUp, cache, written, charts, procs, inval>>

\* lines 46-58: await puppeteer.launch()
PlainLaunch(c) ==
  /\ calls[c].pc = "plainLaunch"
  /\ \/ /\ procs' = procs \cup {[pid |-> NewPid, owner |-> c,
                                  open |-> TRUE, closes |-> 0]}
        /\ Set(c, [calls[c] EXCEPT !.pc = "plainNewPage",
                                   !.launches = @ + 1,
                                   !.browser = NewPid])
     \/ /\ \E e \in BackendErrors :
             Set(c, PlainThrow([calls[c] EXCEPT !.launches = @ + 1], e))
        /\ UNCHANGED procs
  /\ UNCHANGED <<keyVars, apiVars, redisUp, cache, written, charts, inval>>

\* line 60: await browser.newPage()
PlainNewPage(c) ==
  /\ calls[c].pc = "plainNewPage"
  /\ \/ Set(c, [calls[c] EXCEPT !.pc = "plainViewport"])
     \/ \E e \in BackendErrors : Set(c, PlainThrow(calls[c], e))
  /\ UNCHANGED <<keyVars, apiVars, redisUp, cache, written, charts, procs, inval>>

\* lines 66-80: the configuration and the document
PlainBuildDocument(r) ==
  LET chartJsConfig ==
        createChartJsConfig(r.chartType, r.data, ConfigOptions(r.options))
  IN IF chartJsConfig.threw
     THEN PlainThrow(r, chartJsConfig.msg)
     ELSE [r EXCEPT !.pc = "plainContent",
                    !.htmlContent =
                      generateHtmlContent(chartJsConfig.val, r.options)]

\* lines 63-80: await page.setViewport(), a failure of which ends the call,
\* then the document is built
PlainSetViewport(c) ==
  /\ calls[c].pc = "plainViewport"
  /\ \/ Set(c, PlainBuildDocument(calls[c]))
     \/ \E e \in BackendErrors : Set(c, PlainThrow(calls[c], e))
  /\ UNCHANGED <<keyVars, apiVars, redisUp, cache, written, charts, procs, inval>>

\* line 83: await page.setContent(networkidle0)
PlainSetContent(c) ==
  /\ calls[c].pc = "plainContent"
  /\ \/ Set(c, [calls[c] EXCEPT !.pc = "plainWait"])
     \/ \E e \in BackendErrors : Set(c, PlainThrow(calls[c], e))
  /\ UNCHANGED <<keyVars, apiVars, redisUp, cache, written, charts, procs, inval>>

\* line 86: await page.waitForSelector(), once
PlainWaitForSelector(c) ==
  /\ calls[c].pc = "plainWait"
  /\ \/ Set(c, [calls[c] EXCEPT !.pc = "plainShot", !.polls = @ + 1])
     \/ \E e \in BackendErrors :
          Set(c, PlainThrow([calls[c] EXCEPT !.polls = @ + 1], e))
  /\ UNCHANGED <<keyVars, apiVars, redisUp, cache, written, charts, procs, inval>>

\* lines 89-99: await page.screenshot(), and return
PlainScreenshot(c) ==
  /\ calls[c].pc = "plainShot"
  /\ \/ LET png == PngOf(calls[c].htmlContent)
        IN Set(c, [calls[c] EXCEPT !.screenshotBuffer = SomeBuffer(png),
                                   !.result = SomeBuffer(png),
                                   !.pending = "return",
                                   !.pc = "plainClose"])
     \/ \E e \in BackendErrors : Set(c, PlainThrow(calls[c], e))
  /\ UNCHANGED <<keyVars, apiVars, redisUp, cache, written, charts, procs, inval>>

\* lines 103-107: await browser.close(); what close() throws is what the
\* call throws
PlainClose(c) ==
  /\ calls[c].pc = "plainClose"
  /\ procs' = {IF p.pid = calls[c].browser
                THEN [p EXCEPT !.open = FALSE, !.closes = @ + 1] ELSE p :
                p \in procs}
  /\ \/ Set(c, [calls[c] EXCEPT
                  !.pc = IF calls[c].pending = "return" THEN "done" ELSE "thrown"])
     \/ \E e \in BackendErrors :
          Set(c, [calls[c] EXCEPT !.pc = "thrown", !.pending = "throw",
                                  !.result = NoBuffer, !.errorMessage = e])
  /\ UNCHANGED <<keyVars, apiVars, redisUp, cache, written, charts, inval>>

(***************************************************************************)
(* Callers of generateChart.                                               *)
(***************************************************************************)
\* a chart hash: crypto.randomBytes(16).toString('hex'), DigestBytes wide
HashA == [i \in 1..DigestLen |-> IF i % 2 = 1 THEN "a" ELSE "7"]

\* a hash that names no chart at the start
HashB == [i \in 1..DigestLen |-> IF i % 2 = 1 THEN "b" ELSE "3"]

Hashes == {HashA, HashB}

\* the order of the keys of an object held in a JSONB column: shorter keys
\* first, keys of one length in the order of their bytes; the keys are
\* those chartDataSchema admits (validation.ts 17-38)
JsonbKeys ==
  <<"data", "fill", "type", "label", "labels", "datasets", "borderColor",
    "borderWidth", "backgroundColor">>

\* the value read from a JSONB column that JSON.stringify(v) was written to
RECURSIVE Jsonb(_)
Jsonb(v) ==
  CASE v.t = "arr" -> JArr([i \in 1..Len(v.e) |-> Jsonb(v.e[i])])
    [] v.t = "obj" ->
         LET present == SelectSeq(JsonbKeys,
                                  LAMBDA k : Get(v, k).t # "undef")
         IN JObj([i \in 1..Len(present) |->
                    Field(present[i], Jsonb(Get(v, present[i])))])
    [] OTHER -> v

\* database.ts 45-60: a row of the table charts
ChartA ==
  [chart_type |-> "bar", chart_data |-> Jsonb(DataSales),
   chart_config |-> JObj(<<>>),
   width |-> JNum(800), height |-> JNum(600), theme |-> JStr(<<"light">>),
   title |-> JNull, description |-> JNull,
   is_public |-> TRUE, expires_at |-> JNull, updated_at |-> 0]

\* charts.ts 231-235, 330-334, 389-393, 538-542: the rows the GET routes
\* select are those of WHERE chart_hash = $1 AND (is_public = true OR
\* expires_at > NOW()); a comparison with NULL selects nothing
Visible(row, time) ==
  \/ row.is_public
  \/ (row.expires_at # JNull /\ row.expires_at.n > time)

NotFound ==
  [status |-> 404, error |-> <<"Chart not found or expired">>,
   body |-> NoBuffer]

\* undefined is written as NULL
Nullable(v) == IF v = JUndef THEN JNull ELSE v

\* database.ts 46: id UUID PRIMARY KEY DEFAULT gen_random_uuid(); the id
\* of the row of a hash is written with the hash, so two rows have two ids
ChartId(hash) == JStr(<<"id", ":">> \o hash)

\* charts.ts 233, 332, 391, 540: the columns the SELECT of a GET route names
Columns(route) ==
  CASE route = "GET /:hash" ->
         {"id", "chart_hash", "title", "description", "chart_type", "width",
          "height", "theme", "is_public", "expires_at", "created_at",
          "updated_at"}
    [] route = "GET /:hash/png" ->
         {"chart_data", "chart_type", "width", "height", "theme", "title"}
    [] route = "GET /:hash/embed" ->
         {"chart_data", "chart_type", "width", "height", "theme", "title",
          "description"}
    [] route = "GET /:hash/json" ->
         {"chart_data", "chart_type", "title", "description"}

\* chart.id of const chart = result.rows[0] (248, 347, 406, 555): the
\* property of a column the SELECT does not name is undefined
SelectedId(route, hash) ==
  IF "id" \in Columns(route) THEN ChartId(hash) ELSE JUndef

\* the fourth value of the INSERT (254, 364, 411, 560)
AccessType(route) ==
  CASE route = "GET /:hash" -> "view"
    [] route = "GET /:hash/png" -> "png"
    [] route = "GET /:hash/embed" -> "embed"
    [] route = "GET /:hash/json" -> "json"

\* charts.ts 252-255, 362-365, 409-412, 558-561: INSERT INTO
\* chart_access_logs (chart_id, ip_address, user_agent, access_type) VALUES
\* ($1, $2, $3, $4) with chart.id for $1; chart_id may be NULL
\* (database.ts 65)
LogAccess(logs, route, hash) ==
  Append(logs, [chart_id |-> Nullable(SelectedId(route, hash)),
                access_type |-> AccessType(route)])

\* no request being served has inserted a row
NoAccessLogs == [r \in {0} \cup Calls |-> <<>>]

\* no request is being served
IdleHttp ==
  [pc |-> "idle", route |-> "", hash |-> <<>>, apiKey |-> JUndef,
   body |-> JNull, status |-> 0, error |-> <<>>, data |-> JNull, nexts |-> 0]

(***************************************************************************)
(* The routes (routes/charts.ts), their middleware and the database.       *)
(* A time is a number of ticks of the clock.                               *)
(***************************************************************************)
\* the number a text of digits writes
RECURSIVE ParseDecimal(_)
ParseDecimal(s) ==
  IF Len(s) = 0 THEN 0
  ELSE 10 * ParseDecimal(SubSeq(s, 1, Len(s) - 1))
         + (CHOOSE d \in 0..9 : Digits[d + 1] = s[Len(s)])

\* validation.ts 157-161, convert: true: Joi.number() takes a text that
\* writes a number for that number
ToNumber(v) ==
  IF v.t = "str" /\ Len(v.s) > 0
       /\ \A i \in 1..Len(v.s) : \E d \in 1..10 : Digits[d] = v.s[i]
  THEN JNum(ParseDecimal(v.s))
  ELSE v

\* dimensionSchema, were it Joi.number().integer()
dimensionSchemaUnbounded(v) ==
  [ok |-> ToNumber(v).t = "num", value |-> ToNumber(v)]

\* validation.ts 67-68 and 80-81: Joi.number().integer().min(100).max(4000)
\* of a width or height that is given
dimensionSchema(v) ==
  [ok |-> ToNumber(v).t = "num" /\ ToNumber(v).n \in 100..4000,
   value |-> ToNumber(v)]

\* validation.ts 8-10: one of the nine types, required
chartTypeSchema(v) ==
  [ok |-> v.t = "str" /\ Len(v.s) = 1 /\ v.s[1] \in ChartTypes, value |-> v]

\* validation.ts 12-15: one of the three themes, light when none is given
themeSchema(v) ==
  [ok |-> v = JUndef \/ (v.t = "str" /\ Len(v.s) = 1 /\ v.s[1] \in Themes),
   value |-> IF v = JUndef THEN JStr(<<"light">>) ELSE v]

\* a width or height that is given is replaced by its number
Converted(body) ==
  LET conv(b, k) ==
        IF k \in Keys(b) THEN Put(b, k, dimensionSchema(Get(b, k)).value)
        ELSE b
  IN conv(conv(body, "width"), "height")

\* validation.ts 75-86 with 12-15 and 154-185: the body PUT /:hash is
\* handed; Joi fills in the default of a theme that is missing
validateUpdateBody(body) ==
  IF "theme" \in Keys(body) THEN Converted(body)
  ELSE Put(Converted(body), "theme", JStr(<<"light">>))

\* charts.ts 667-678: the columns, and the property of the body each is
\* taken from
UpdateColumns ==
  <<[column |-> "title", key |-> "title"],
    [column |-> "description", key |-> "description"],
    [column |-> "chart_data", key |-> "data"],
    [column |-> "chart_config", key |-> "chartConfig"],
    [column |-> "width", key |-> "width"],
    [column |-> "height", key |-> "height"],
    [column |-> "theme", key |-> "theme"],
    [column |-> "is_public", key |-> "isPublic"],
    [column |-> "expires_at", key |-> "expiresAt"]>>

\* charts.ts 697-749: the value bound for a column
UpdateValue(column, v) ==
  IF column \in {"chart_data", "chart_config"} THEN JStr(JSONstringify(v))
  ELSE IF column = "expires_at" THEN (IF Truthy(v) THEN v ELSE JNull)
  ELSE v

NoStatement == [set |-> <<>>, where |-> 0, values |-> <<>>]

\* charts.ts 692-763: the UPDATE statement.  set lists the assignments
\* "column = $param", where is the parameter of "chart_hash = $param",
\* values are the values bound to $1, $2, ...
BuildUpdateQuery(requestData, hash, date) ==
  LET given == SelectSeq(UpdateColumns,
                         LAMBDA u : Get(requestData, u.key) # JUndef)
      updateFields ==
        [i \in 1..Len(given) |-> [column |-> given[i].column, param |-> i]]
      updateValues ==
        [i \in 1..Len(given) |->
           UpdateValue(given[i].column, Get(requestData, given[i].key))]
      paramCount == Len(given) + 1
  IN [set |-> Append(updateFields,
                     [column |-> "updated_at", param |-> paramCount]),
      where |-> paramCount,
      values |-> updateValues \o <<JNum(date), JStr(hash)>>]

\* the request of the end-to-end scenario, with and without its options
DirectRequests ==
  {[chartType |-> "bar", data |-> DataSales,
    options |-> JObj(<<Field("width", JNum(800)), Field("height", JNum(600)),
                       Field("theme", JStr(<<"light">>))>>)],
   [chartType |-> "bar", data |-> DataSales, options |-> JObj(<<>>)],
   [chartType |-> "bar", data |-> DataSales,
    options |-> JObj(<<Field("theme", JStr(<<"custom">>))>>)]}

\* lines 350-359: the options GET /:hash/png passes
PngOptions(row) ==
  JObj(<<Field("width", row.width), Field("height", row.height),
         Field("theme", row.theme), Field("title", row.title)>>)

\* a call of the service by any other caller
GenerateChart(c) ==
  \E r \in DirectRequests : Begin(c, r.chartType, r.data, r.options, NoChart)

\* a call of the service that has no cache
PlainGenerateChart(c) ==
  \E r \in DirectRequests : PlainBegin(c, r.chartType, r.data, r.options)

\* GET /:hash/png, lines 325-359: the chart's row, then generateChart; 404
\* when no row is selected
GetPng(c) ==
  \E hash \in Hashes :
    IF hash \in DOMAIN charts /\ Visible(charts[hash], now)
    THEN Begin(c, charts[hash].chart_type, charts[hash].chart_data,
               PngOptions(charts[hash]), hash)
    ELSE /\ calls[c].pc = "idle"
         /\ \A d \in 1..(c - 1) : calls[d].pc # "idle"
         /\ Set(c, [IdleCall EXCEPT !.pc = "responded", !.via = hash,
                                    !.response = NotFound])
         /\ UNCHANGED <<keyVars, apiVars, redisUp, cache, written, charts,
                        procs, inval>>

\* GET /:hash/png, lines 361-381: the PNG is sent, or the catch clause
\* answers 500
RouteResponds(c) ==
  /\ calls[c].pc \in {"done", "thrown"}
  /\ calls[c].via # NoChart
  /\ Set(c, [calls[c] EXCEPT
               !.pc = "responded",
               !.response =
                 IF calls[c].pc = "done"
                 THEN [status |-> 200, error |-> <<>>, body |-> calls[c].result]
                 ELSE [status |-> 500, error |-> <<"Failed to generate PNG">>,
                       body |-> NoBuffer]])
  \* 362-365: the access is logged when generateChart has returned
  /\ accessLogs' =
       IF calls[c].pc = "done"
       THEN [accessLogs EXCEPT
               ![c] = LogAccess(@, "GET /:hash/png", calls[c].via)]
       ELSE accessLogs
  /\ UNCHANGED <<keyVars, now, apiKeyEnv, http, redisUp, cache, written,
                 charts, procs, inval>>

(***************************************************************************)
(* invalidateChartCache and RedisService.delPattern                        *)
(***************************************************************************)
\* failed: delPattern has logged 'Redis DEL pattern error' (line 76)
IdleInval ==
  [pc |-> "idle", chartHash |-> <<>>, pattern |-> <<>>, keys |-> {},
   failed |-> FALSE]

\* ChartPattern, were the hash to begin the last segment
ChartPatternAnchored(chartHash) ==
  <<"chart_cache", ":", "*", ":", "*", ":", "*", ":", "*", ":">>
    \o chartHash \o <<"*">>

\* line 561
ChartPattern(chartHash) ==
  <<"chart_cache", ":", "*", ":", "*", ":", "*", ":", "*", ":", "*">>
    \o chartHash \o <<"*">>

\* the keys the service may write
KnownKeys ==
  {generateCacheKey(r.chartType, r.data, ResolveOptions(r.options)) :
     r \in DirectRequests}
  \cup {generateCacheKey(ChartA.chart_type, ChartA.chart_data,
                         ResolveOptions(PngOptions(ChartA)))}

Digest(key) == SubSeq(key, Len(key) - DigestLen + 1, Len(key))

\* the hashes invalidation is asked for: a chart's, and parts of digests
InvalidateInputs ==
  {HashA} \cup {SubSeq(Digest(k), 2, 3) : k \in KnownKeys}

\* lines 559-562: the pattern, and delPattern is called
InvalidateChartCache(chartHash) ==
  /\ inval.pc = "idle"
  /\ inval' = [pc |-> "keys", chartHash |-> chartHash,
               pattern |-> ChartPattern(chartHash), keys |-> {},
               failed |-> FALSE]
  /\ UNCHANGED <<keyVars, apiVars, redisUp, cache, written, charts, calls, procs>>

\* FlushPattern, were it the pattern of the line charts
FlushPatternOfLineCharts == <<"chart_cache", ":", "line", ":", "*">>

\* line 570
FlushPattern == <<"chart_cache", ":", "*">>

\* lines 568-571: the pattern, and delPattern is called
InvalidateAllCache ==
  /\ inval.pc = "idle"
  /\ inval' = [pc |-> "keys", chartHash |-> NoChart,
               pattern |-> FlushPattern, keys |-> {},
               failed |-> FALSE]
  /\ UNCHANGED <<keyVars, apiVars, redisUp, cache, written, charts, calls, procs>>

\* lines 69-71: await client.keys(pattern); no key, or a failed command,
\* ends the call
KeysReply ==
  /\ inval.pc = "keys"
  /\ LET r == delPatternKeys(redisUp, cache, inval.pattern)
     IN inval' = IF ~r.threw /\ r.keys # {}
                 THEN [inval EXCEPT !.pc = "del", !.keys = r.keys]
                 ELSE [inval EXCEPT !.pc = "done", !.failed = r.failed]
  /\ UNCHANGED <<keyVars, apiVars, redisUp, cache, written, charts, calls, procs>>

\* lines 72-77: await client.del(keys)
DelReply ==
  /\ inval.pc = "del"
  /\ inval' = [inval EXCEPT
                 !.pc = "done",
                 !.failed = delPatternDel(redisUp, cache, inval.keys).failed]
  /\ cache' = delPatternDel(redisUp, cache, inval.keys).store
  /\ written' = [k \in DOMAIN cache' |-> written[k]]
  /\ UNCHANGED <<keyVars, apiVars, redisUp, charts, calls, procs>>

\* lines 563-566, 572-575: delPattern has returned, and so does
\* invalidateChartCache or invalidateAllCache
InvalidateReturns ==
  /\ inval.pc = "done"
  /\ inval' = IdleInval
  /\ UNCHANGED <<keyVars, apiVars, redisUp, cache, written, charts, calls, procs>>

(***************************************************************************)
(* The routes other than GET /:hash/png.  The database is up: a statement  *)
(* fails only when the database refuses it.  A handler whose only awaits   *)
(* are statements is one step; PUT and DELETE wait for the invalidation.   *)
(***************************************************************************)
\* the key the server is configured with, and what a request may send
ServerKey == JStr(<<"secret">>)
ApiKeyHeaders == {JUndef, JStr(<<>>), JStr(<<"guess">>), ServerKey}

\* authenticateApiKey, were a request without the header let through
authenticateApiKeyWhenSent(apiKey, expectedApiKey) ==
  IF ~Truthy(expectedApiKey)
  THEN [status |-> 500, error |-> <<"Server configuration error">>,
        nexts |-> 0]
  ELSE IF Truthy(apiKey) /\ apiKey # expectedApiKey
  THEN [status |-> 401, error |-> <<"Invalid or missing API key">>,
        nexts |-> 0]
  ELSE [status |-> 0, error |-> <<>>, nexts |-> 1]

\* auth.ts 7-42: the response the middleware sends, or status 0 when it
\* calls next(); nexts counts the calls of next()
authenticateApiKey(apiKey, expectedApiKey) ==
  IF ~Truthy(expectedApiKey)
  THEN [status |-> 500, error |-> <<"Server configuration error">>,
        nexts |-> 0]
  ELSE IF ~Truthy(apiKey) \/ apiKey # expectedApiKey
  THEN [status |-> 401, error |-> <<"Invalid or missing API key">>,
        nexts |-> 0]
  ELSE [status |-> 0, error |-> <<>>, nexts |-> 1]

\* validation.ts 62-73 with 154-185: the body POST /generate is handed,
\* defaults filled in; chartType is required and expiresAt is later than
\* now
validateGenerateBody(body, time) ==
  LET filled(b, k, d) == IF k \in Keys(b) THEN b ELSE Put(b, k, d)
  IN [ok |-> /\ chartTypeSchema(Get(body, "chartType")).ok
             /\ "width" \in Keys(body)
                  => dimensionSchema(Get(body, "width")).ok
             /\ "height" \in Keys(body)
                  => dimensionSchema(Get(body, "height")).ok
             /\ themeSchema(Get(body, "theme")).ok
             /\ ("expiresAt" \in Keys(body)
                   => Get(body, "expiresAt").n > time),
      value |-> filled(filled(filled(filled(Converted(body),
                  "width", JNum(800)), "height", JNum(600)),
                  "theme", JStr(<<"light">>)), "isPublic", JBool(FALSE))]

\* validation.ts 75-86: the properties given are as their schemas say,
\* expiresAt is later than now, and the object Joi has validated, defaults
\* filled in, has one key or more (.min(1))
validUpdateBody(body, time) ==
  /\ "width" \in Keys(body) => dimensionSchema(Get(body, "width")).ok
  /\ "height" \in Keys(body) => dimensionSchema(Get(body, "height")).ok
  /\ themeSchema(Get(body, "theme")).ok
  /\ "expiresAt" \in Keys(body) => Get(body, "expiresAt").n > time
  /\ Len(validateUpdateBody(body).f) >= 1

\* a || b
OrElse(a, b) == IF Truthy(a) THEN a ELSE b

\* charts.ts 82-94 and 107-119, database.ts 45-60: the row POST /generate
\* inserts
ChartRecord(requestData, time) ==
  [chart_type |-> Get(requestData, "chartType").s[1],
   chart_data |-> Jsonb(Get(requestData, "data")),
   chart_config |-> Jsonb(OrElse(Get(requestData, "chartConfig"), JObj(<<>>))),
   width |-> OrElse(Get(requestData, "width"), JNum(800)),
   height |-> OrElse(Get(requestData, "height"), JNum(600)),
   theme |-> OrElse(Get(requestData, "theme"), JStr(<<"light">>)),
   title |-> Nullable(Get(requestData, "title")),
   description |-> Nullable(Get(requestData, "description")),
   is_public |-> OrElse(Get(requestData, "isPublic"), JBool(FALSE)).b,
   expires_at |-> OrElse(Get(requestData, "expiresAt"), JNull),
   updated_at |-> time]

\* the values a JSONB column may be written
JsonInputs == {DataSales, DataTwo, JObj(<<>>)}

\* the value of the JSON text
JSONparse(text) == CHOOSE v \in JsonInputs : JSONstringify(v) = text

\* the parameters a statement names
Placeholders(statement) ==
  {statement.set[i].param : i \in 1..Len(statement.set)}
    \cup {statement.where}

\* the row after "column = value"
Assign(row, column, v) ==
  CASE column = "chart_data" -> [row EXCEPT !.chart_data = Jsonb(JSONparse(v.s))]
    [] column = "chart_config" ->
         [row EXCEPT !.chart_config = Jsonb(JSONparse(v.s))]
    [] column = "width" -> [row EXCEPT !.width = v]
    [] column = "height" -> [row EXCEPT !.height = v]
    [] column = "theme" -> [row EXCEPT !.theme = v]
    [] column = "title" -> [row EXCEPT !.title = v]
    [] column = "description" -> [row EXCEPT !.description = v]
    [] column = "is_public" -> [row EXCEPT !.is_public = v.b]
    [] column = "expires_at" -> [row EXCEPT !.expires_at = v]
    [] column = "updated_at" -> [row EXCEPT !.updated_at = v.n]

RECURSIVE AssignAll(_, _, _)
AssignAll(row, statement, i) ==
  IF i > Len(statement.set) THEN row
  ELSE AssignAll(Assign(row, statement.set[i].column,
                        statement.values[statement.set[i].param]),
                 statement, i + 1)

\* what the database makes of an UPDATE statement: it refuses one whose
\* values are not one for each of the parameters $1..$n it names, and else
\* assigns in the rows whose chart_hash is the value of the WHERE clause
ExecUpdate(table, statement) ==
  IF Placeholders(statement) # 1..Len(statement.values)
  THEN [threw |-> TRUE, table |-> table]
  ELSE [threw |-> FALSE,
        table |-> [h \in DOMAIN table |->
                     IF JStr(h) = statement.values[statement.where]
                     THEN AssignAll(table[h], statement, 1)
                     ELSE table[h]]]

\* the bodies of the requests
GenerateBodies(time) ==
  LET base == JObj(<<Field("chartType", JStr(<<"bar">>)),
                     Field("data", DataSales)>>)
  IN {base,
      Put(Put(base, "isPublic", JBool(TRUE)), "expiresAt", JNum(time + 1)),
      Put(base, "expiresAt", JNum(time + 1)),
      Put(base, "expiresAt", JNum(time)),
      \* the least width and the greatest height, a height sent as text
      Put(Put(base, "width", JNum(100)), "height", JNum(4000)),
      Put(base, "height", JStr(<<"1", "2", "0", "0">>)),
      \* bodies the schema does not admit
      Put(base, "width", JNum(99)),
      Put(base, "width", JNum(4001)),
      Put(base, "height", JDec(600, 5)),
      Put(base, "theme", JStr(<<"neon">>)),
      Put(base, "chartType", JStr(<<"area">>)),
      JObj(<<Field("data", DataSales)>>)}

PutBodies ==
  {JObj(<<Field("title", JStr(<<"Revenue">>))>>),
   JObj(<<Field("data", DataTwo), Field("isPublic", JBool(TRUE))>>),
   \* no property at all, and bodies the schema does not admit
   JObj(<<>>),
   JObj(<<Field("width", JNum(4001))>>),
   JObj(<<Field("height", JNum(99))>>),
   JObj(<<Field("theme", JStr(<<"neon">>))>>)}

\* a request arrives when none is being served
Arrives ==
  /\ http.pc = "idle"
  /\ \A c \in Calls : calls[c].pc = "idle"
  /\ inval.pc = "idle"

Sent(route, hash, apiKey, body, status, error, data, nexts) ==
  [pc |-> "sent", route |-> route, hash |-> hash, apiKey |-> apiKey,
   body |-> body, status |-> status, error |-> error, data |-> data,
   nexts |-> nexts]

\* charts.ts 77-183: POST /generate
PostGenerate(apiKey, body, chartHash) ==
  LET auth == authenticateApiKey(apiKey, apiKeyEnv)
      valid == validateGenerateBody(body, now)
      reply(status, error, data) ==
        Sent("POST /generate", <<>>, apiKey, body, status, error, data,
             auth.nexts)
  IN /\ Arrives
     /\ IF auth.status # 0
        THEN http' = reply(auth.status, auth.error, JNull) /\ charts' = charts
        ELSE IF ~valid.ok
        THEN http' = reply(400, <<"Validation failed">>, JNull)
             /\ charts' = charts
        ELSE IF ~Truthy(Get(valid.value, "data"))
        THEN http' = reply(400, <<"chart_type and chart_data are required">>,
                           JNull)
             /\ charts' = charts
        ELSE IF chartHash \in DOMAIN charts
        \* chart_hash is UNIQUE: the INSERT is refused
        THEN http' = reply(500, <<"Failed to generate chart">>, JNull)
             /\ charts' = charts
        ELSE /\ charts' = [h \in DOMAIN charts \cup {chartHash} |->
                             IF h = chartHash
                             THEN ChartRecord(valid.value, now)
                             ELSE charts[h]]
             /\ http' = reply(201, <<>>,
                              [chart_hash |-> chartHash,
                               row |-> ChartRecord(valid.value, now)])
     /\ UNCHANGED <<keyVars, now, apiKeyEnv, accessLogs, redisUp, cache,
                    written, calls,
                    procs, inval>>

\* charts.ts 226-283, 384-531, 533-579: GET /:hash, GET /:hash/embed and
\* GET /:hash/json
GetRoutes == {"GET /:hash", "GET /:hash/embed", "GET /:hash/json"}

GetChart(route, hash) ==
  /\ Arrives
  /\ IF hash \in DOMAIN charts /\ Visible(charts[hash], now)
     \* the access is logged (252-255, 409-412, 558-561), then the answer
     THEN /\ accessLogs' = [accessLogs EXCEPT ![0] = LogAccess(@, route, hash)]
          /\ http' = Sent(route, hash, JUndef, JNull, 200, <<>>,
                          [chart_hash |-> hash, row |-> charts[hash]], 0)
     ELSE /\ accessLogs' = accessLogs
          /\ http' = Sent(route, hash, JUndef, JNull, 404,
                          <<"Chart not found or expired">>, JNull, 0)
  /\ UNCHANGED <<keyVars, now, apiKeyEnv, redisUp, cache,
                 written, charts,
                 calls, procs, inval>>

\* the invalidation a route awaits
Invalidating(route, hash, apiKey, body, nexts) ==
  [pc |-> "invalidating", route |-> route, hash |-> hash, apiKey |-> apiKey,
   body |-> body, status |-> 0, error |-> <<>>, data |-> JNull,
   nexts |-> nexts]

\* Exists, were every hash to name a chart
ExistsAlways(table, hash) == TRUE

\* charts.ts 681-684 and 864-867: SELECT id FROM charts WHERE chart_hash =
\* $1 has a row
Exists(table, hash) == hash \in DOMAIN table

\* DeleteFrom, were the statement to delete nothing
DeleteFromNothing(table, hash) == table

\* charts.ts 876: DELETE FROM charts WHERE chart_hash = $1
DeleteFrom(table, hash) == [h \in DOMAIN table \ {hash} |-> table[h]]

\* charts.ts 661-788: PUT /:hash, up to invalidateChartCache
PutChart(apiKey, body, hash) ==
  LET auth == authenticateApiKey(apiKey, apiKeyEnv)
      requestData == validateUpdateBody(body)
      update == ExecUpdate(charts, BuildUpdateQuery(requestData, hash, now))
      reply(status, error) ==
        Sent("PUT /:hash", hash, apiKey, body, status, error, JNull,
             auth.nexts)
  IN /\ Arrives
     /\ IF auth.status # 0
        THEN /\ http' = reply(auth.status, auth.error)
             /\ UNCHANGED <<charts, inval>>
        ELSE IF ~validUpdateBody(body, now)
        THEN /\ http' = reply(400, <<"Validation failed">>)
             /\ UNCHANGED <<charts, inval>>
        ELSE IF ~Exists(charts, hash)
        THEN /\ http' = reply(404, <<"Chart not found">>)
             /\ UNCHANGED <<charts, inval>>
        ELSE IF update.threw
        THEN /\ http' = reply(500, <<"Failed to update chart">>)
             /\ UNCHANGED <<charts, inval>>
        ELSE /\ charts' = update.table
             /\ http' = Invalidating("PUT /:hash", hash, apiKey, body,
                                     auth.nexts)
             /\ inval' = [pc |-> "keys", chartHash |-> hash,
                          pattern |-> ChartPattern(hash), keys |-> {},
                          failed |-> FALSE]
     /\ UNCHANGED <<keyVars, now, apiKeyEnv, accessLogs, redisUp, cache,
                    written, calls,
                    procs>>

\* charts.ts 858-879: DELETE /:hash, up to invalidateChartCache
DeleteChart(apiKey, hash) ==
  LET auth == authenticateApiKey(apiKey, apiKeyEnv)
      reply(status, error) ==
        Sent("DELETE /:hash", hash, apiKey, JNull, status, error, JNull,
             auth.nexts)
  IN /\ Arrives
     /\ IF auth.status # 0
        THEN /\ http' = reply(auth.status, auth.error)
             /\ UNCHANGED <<charts, inval>>
        ELSE IF ~Exists(charts, hash)
        THEN /\ http' = reply(404, <<"Chart not found">>)
             /\ UNCHANGED <<charts, inval>>
        ELSE /\ charts' = DeleteFrom(charts, hash)
             /\ http' = Invalidating("DELETE /:hash", hash, apiKey, JNull,
                                     auth.nexts)
             /\ inval' = [pc |-> "keys", chartHash |-> hash,
                          pattern |-> ChartPattern(hash), keys |-> {},
                          failed |-> FALSE]
     /\ UNCHANGED <<keyVars, now, apiKeyEnv, accessLogs, redisUp, cache,
                    written, calls,
                    procs>>

\* charts.ts 788-798 and 879-888: invalidateChartCache has returned, and
\* the route answers
RouteInvalidated ==
  /\ http.pc = "invalidating"
  /\ inval.pc = "done"
  /\ inval' = IdleInval
  /\ http' = [http EXCEPT !.pc = "sent", !.status = 200]
  /\ UNCHANGED <<keyVars, now, apiKeyEnv, accessLogs, redisUp, cache,
                 written, charts,
                 calls, procs>>

\* the client has the response
ClientReceives ==
  /\ http.pc = "sent"
  /\ http' = IdleHttp
  /\ accessLogs' = [accessLogs EXCEPT ![0] = <<>>]
  /\ UNCHANGED <<keyVars, now, apiKeyEnv, redisUp, cache,
                 written, charts,
                 calls, procs, inval>>

(***************************************************************************)
(* The Redis server.                                                       *)
(***************************************************************************)
RedisFails ==
  /\ redisUp
  /\ redisUp' = FALSE
  /\ UNCHANGED <<keyVars, apiVars, cache, written, charts, calls, procs, inval>>

RedisRecovers ==
  /\ ~redisUp
  /\ redisUp' = TRUE
  /\ UNCHANGED <<keyVars, apiVars, cache, written, charts, calls, procs, inval>>

\* the ttl of an entry runs out
Expire ==
  \E k \in DOMAIN cache :
    /\ cache[k].ttl > 0
    /\ cache' = RedisDel(cache, {k})
    /\ written' = [j \in DOMAIN cache' |-> written[j]]
    /\ UNCHANGED <<keyVars, apiVars, redisUp, charts, calls, procs, inval>>

(***************************************************************************)
(* The pipeline.                                                           *)
(***************************************************************************)
\* a key of another user of the same Redis
ForeignKey == <<"session", ":", "a", "1">>

Init ==
  /\ kin = <<>>
  /\ kout = <<>>
  /\ now = 0
  /\ apiKeyEnv = JUndef
  /\ http = IdleHttp
  /\ accessLogs = NoAccessLogs
  /\ redisUp \in BOOLEAN
  /\ cache = [k \in {ForeignKey} |-> [val |-> <<"x">>, ttl |-> 0]]
  /\ written = [k \in {ForeignKey} |-> [via |-> NoChart, bytes |-> <<>>]]
  /\ charts = [h \in {HashA} |-> ChartA]
  /\ calls = [c \in Calls |-> IdleCall]
  /\ procs = {}
  /\ inval = IdleInval

\* the steps of a call of generateChart that is under way
Pipeline(c) ==
  \/ CacheProbe(c)
  \/ CacheGet(c)
  \/ Launch(c)
  \/ NewPage(c)
  \/ SetViewport(c)
  \/ SetContent(c)
  \/ SetContentFallback(c)
  \/ WaitForSelector(c)
  \/ RetryDelay(c)
  \/ Screenshot(c)
  \/ StoreProbe(c)
  \/ CacheSet(c)
  \/ Close(c)
  \/ RouteResponds(c)
  \/ CallerResumes(c)

Step(c) ==
  \/ GenerateChart(c)
  \/ GetPng(c)
  \/ Pipeline(c)

\* the steps of a call of the service without a cache that is under way
PlainPipeline(c) ==
  \/ PlainLaunch(c)
  \/ PlainNewPage(c)
  \/ PlainSetViewport(c)
  \/ PlainSetContent(c)
  \/ PlainWaitForSelector(c)
  \/ PlainScreenshot(c)
  \/ PlainClose(c)

StepPlain(c) ==
  \/ PlainGenerateChart(c)
  \/ PlainPipeline(c)

Environment ==
  \/ \E h \in InvalidateInputs : InvalidateChartCache(h)
  \/ InvalidateAllCache
  \/ KeysReply
  \/ DelReply
  \/ InvalidateReturns
  \/ RedisFails
  \/ RedisRecovers
  \/ Expire

\* calls one after the other
Next == Step(1) \/ StepPlain(1) \/ Environment

Spec == Init /\ [][Next]_vars

\* the call has begun and its caller has not resumed: a step of Pipeline
\* or of PlainPipeline is enabled
Busy(c) == calls[c].pc # "idle"

\* a step of the call that is under way
Advance(c) == Busy(c) /\ calls'[c] # calls[c]

\* every await of a call under way settles: the operation completes, or
\* fails, or runs into its timeout (launch 30000 ms, setContent 30000 ms,
\* waitForSelector 10000 ms).  This is weak fairness of the steps of the
\* call, WF_vars(Pipeline(1) \/ PlainPipeline(1)), with Busy(1) written
\* for ENABLED
Settles == []<>(~Busy(1)) \/ []<><<Advance(1)>>_vars

SpecLive == Init /\ [][Next]_vars /\ Settles

\* calls that overlap, with no invalidation under way
NextPair ==
  \/ \E c \in Calls : Step(c)
  \/ RedisFails
  \/ RedisRecovers
  \/ Expire

SpecPair == Init /\ [][NextPair]_vars

(***************************************************************************)
(* The key derivation alone: two service instances derive the keys of two  *)
(* inputs.                                                                 *)
(***************************************************************************)
pipeVars == <<redisUp, cache, written, charts, calls, procs, inval>>

InitKey ==
  /\ kin \in [1..2 -> KeyInputs]
  /\ kout = [i \in 1..2 |-> NoKey]
  /\ now = 0
  /\ apiKeyEnv = JUndef
  /\ http = IdleHttp
  /\ accessLogs = NoAccessLogs
  /\ redisUp = TRUE
  /\ cache = [k \in {ForeignKey} |-> [val |-> <<"x">>, ttl |-> 0]]
  /\ written = [k \in {ForeignKey} |-> [via |-> NoChart, bytes |-> <<>>]]
  /\ charts = [h \in {HashA} |-> ChartA]
  /\ calls = [c \in Calls |-> IdleCall]
  /\ procs = {}
  /\ inval = IdleInval

DeriveKey(i) ==
  /\ kout' = [kout EXCEPT ![i] =
                generateCacheKey(kin[i].chartType, kin[i].data, kin[i].options)]
  /\ UNCHANGED <<kin, apiVars, pipeVars>>

NextKey == \E i \in 1..2 : DeriveKey(i)

SpecKey == InitKey /\ [][NextKey]_vars

(***************************************************************************)
(* createChartJsConfig on its own: kin is the request, kout what the       *)
(* function returns or throws.                                             *)
(***************************************************************************)
\* Sales with a background colour of its own
Tinted == Put(Sales, "backgroundColor", Colour("ef4444"))
\* Costs with both colours of its own and a border width of 0
Thin == Put(Put(Put(Costs, "backgroundColor", Colour("10b981")),
                "borderColor", Colour("000000")),
            "borderWidth", JNum(0))

DataTinted ==
  JObj(<<Field("labels", JanFeb), Field("datasets", JArr(<<Tinted>>))>>)
DataThin ==
  JObj(<<Field("labels", JanFeb), Field("datasets", JArr(<<Thin, Sales>>))>>)

ConfigInputs ==
  [chartType : ChartTypes,
   data : {DataSales, DataTwo, DataTinted, DataThin},
   options : {ResolveOptions(JObj(<<Field("theme", JStr(<<t>>))>>)) :
                t \in Themes}]

NoConfig == [threw |-> FALSE, msg |-> <<>>, val |-> JNull]

InitConfig ==
  /\ kin \in ConfigInputs
  /\ kout = NoConfig
  /\ now = 0
  /\ apiKeyEnv = JUndef
  /\ http = IdleHttp
  /\ accessLogs = NoAccessLogs
  /\ redisUp = TRUE
  /\ cache = [k \in {ForeignKey} |-> [val |-> <<"x">>, ttl |-> 0]]
  /\ written = [k \in {ForeignKey} |-> [via |-> NoChart, bytes |-> <<>>]]
  /\ charts = [h \in {HashA} |-> ChartA]
  /\ calls = [c \in Calls |-> IdleCall]
  /\ procs = {}
  /\ inval = IdleInval

BuildConfig ==
  /\ kout' = createChartJsConfig(kin.chartType, kin.data,
                                 ConfigOptions(kin.options))
  /\ UNCHANGED <<kin, apiVars, pipeVars>>

NextConfig == BuildConfig

SpecConfig == InitConfig /\ [][NextConfig]_vars

(***************************************************************************)
(* The service behind its routes: requests one after the other, the cache  *)
(* available at the start, the table empty at the start.                   *)
(***************************************************************************)
\* the last tick of the clock
MaxTime == 2

Tick ==
  /\ now < MaxTime
  /\ now' = now + 1
  /\ UNCHANGED <<keyVars, apiKeyEnv, http, accessLogs, pipeVars>>

InitRoutes ==
  /\ kin = <<>>
  /\ kout = <<>>
  /\ now = 0
  /\ apiKeyEnv \in {JUndef, JStr(<<>>), ServerKey}
  /\ http = IdleHttp
  /\ accessLogs = NoAccessLogs
  /\ redisUp = TRUE
  /\ cache = [k \in {ForeignKey} |-> [val |-> <<"x">>, ttl |-> 0]]
  /\ written = [k \in {ForeignKey} |-> [via |-> NoChart, bytes |-> <<>>]]
  /\ charts = [h \in {} |-> ChartA]
  /\ calls = [c \in Calls |-> IdleCall]
  /\ procs = {}
  /\ inval = IdleInval

NextRoutes ==
  \/ \E apiKey \in ApiKeyHeaders, body \in GenerateBodies(now),
        chartHash \in Hashes : PostGenerate(apiKey, body, chartHash)
  \/ \E route \in GetRoutes, hash \in Hashes : GetChart(route, hash)
  \/ \E apiKey \in ApiKeyHeaders, body \in PutBodies, hash \in Hashes :
       PutChart(apiKey, body, hash)
  \/ \E apiKey \in ApiKeyHeaders, hash \in Hashes : DeleteChart(apiKey, hash)
  \* no key holds the hash of a chart, so client.keys() finds none and
  \* client.del() is not reached
  \/ KeysReply
  \/ RouteInvalidated
  \/ ClientReceives
  \/ RedisFails
  \/ RedisRecovers
  \/ (http.pc = "idle" /\ inval.pc = "idle" /\ GetPng(1))
  \/ Pipeline(1)
  \/ Tick

SpecRoutes == InitRoutes /\ [][NextRoutes]_vars

(***************************************************************************)
(* The UPDATE statement of PUT /:hash on its own: kin is the request, kout *)
(* the statement built for it.                                             *)
(***************************************************************************)
\* a value for each property of the body
UpdateSample ==
  JObj(<<Field("title", JStr(<<"Revenue">>)),
         Field("description", JStr(<<"Costs">>)),
         Field("data", DataTwo),
         Field("chartConfig", JObj(<<Field("type", JStr(<<"bar">>))>>)),
         Field("width", JNum(1200)),
         Field("height", JNum(1200)),
         Field("theme", JStr(<<"dark">>)),
         Field("isPublic", JBool(TRUE)),
         Field("expiresAt", JNum(5))>>)

\* the bodies updateChartSchema accepts: one property or more
UpdateBodies ==
  {JObj(SelectSeq(UpdateSample.f, LAMBDA p : p.k \in ks)) :
     ks \in (SUBSET Keys(UpdateSample)) \ {{}}}

InitUpdate ==
  /\ kin \in [hash : {HashA}, body : UpdateBodies, date : {1}]
  /\ kout = NoStatement
  /\ now = 0
  /\ apiKeyEnv = JUndef
  /\ http = IdleHttp
  /\ accessLogs = NoAccessLogs
  /\ redisUp = TRUE
  /\ cache = [k \in {ForeignKey} |-> [val |-> <<"x">>, ttl |-> 0]]
  /\ written = [k \in {ForeignKey} |-> [via |-> NoChart, bytes |-> <<>>]]
  /\ charts = [h \in {HashA} |-> ChartA]
  /\ calls = [c \in Calls |-> IdleCall]
  /\ procs = {}
  /\ inval = IdleInval

BuildUpdate ==
  /\ kout' = BuildUpdateQuery(validateUpdateBody(kin.body), kin.hash, kin.date)
  /\ UNCHANGED <<kin, apiVars, pipeVars>>

NextUpdate == BuildUpdate

SpecUpdate == InitUpdate /\ [][NextUpdate]_vars

(***************************************************************************)
(* RedisService on its own: kin is the last operation on the cache, kout   *)
(* what the last get returned.                                             *)
(***************************************************************************)
\* the keys and the buffers of the operations: one, two, three and four
\* bytes
CacheKeys == {<<"chart_cache", ":", "a">>, <<"chart_cache", ":", "b">>}
CacheValues == {<<0>>, <<255, 0>>, <<0, 255, 77>>, <<137, 80, 78, 71>>}

NoOperation == [op |-> "none", key |-> <<>>, value |-> <<>>, n |-> 0]

\* the operation after kin
Operation(op, key, value) ==
  [op |-> op, key |-> key, value |-> value, n |-> 1 - kin.n]

InitCache ==
  /\ kin = NoOperation
  /\ kout = NoBuffer
  /\ now = 0
  /\ apiKeyEnv = JUndef
  /\ http = IdleHttp
  /\ accessLogs = NoAccessLogs
  /\ redisUp \in BOOLEAN
  /\ cache = [k \in {ForeignKey} |-> [val |-> <<"x">>, ttl |-> 0]]
  /\ written = [k \in {ForeignKey} |-> [via |-> NoChart, bytes |-> <<>>]]
  /\ charts = [h \in {HashA} |-> ChartA]
  /\ calls = [c \in Calls |-> IdleCall]
  /\ procs = {}
  /\ inval = IdleInval

\* redis.ts 48-56: set(key, value, ttlSeconds)
SetOp(key, value) ==
  LET s == RedisSet(redisUp, cache, key, value, CacheTtlSeconds)
  IN /\ kin' = Operation("set", key, value)
     /\ kout' = NoBuffer
     /\ cache' = s.store
     /\ written' = [k \in DOMAIN s.store |->
                      IF k = key /\ s.ok
                      THEN [via |-> NoChart, bytes |-> value]
                      ELSE written[k]]
     /\ UNCHANGED <<apiVars, redisUp, charts, calls, procs, inval>>

\* redis.ts 38-46: get(key)
GetOp(key) ==
  /\ kin' = Operation("get", key, <<>>)
  /\ kout' = RedisGet(redisUp, cache, key).val
  /\ UNCHANGED <<apiVars, pipeVars>>

\* redis.ts 58-65: del(key)
DelOp(key) ==
  /\ kin' = Operation("del", key, <<>>)
  /\ kout' = NoBuffer
  /\ cache' = RedisDelKey(redisUp, cache, key).store
  /\ written' = [k \in DOMAIN cache' |-> written[k]]
  /\ UNCHANGED <<apiVars, redisUp, charts, calls, procs, inval>>

\* the ttl of the entry runs out
Expires(key) ==
  /\ key \in DOMAIN cache
  /\ cache[key].ttl > 0
  /\ kin' = Operation("expire", key, <<>>)
  /\ kout' = NoBuffer
  /\ cache' = RedisDel(cache, {key})
  /\ written' = [k \in DOMAIN cache' |-> written[k]]
  /\ UNCHANGED <<apiVars, redisUp, charts, calls, procs, inval>>

NextCache ==
  \/ \E key \in CacheKeys, value \in CacheValues : SetOp(key, value)
  \/ \E key \in CacheKeys : GetOp(key)
  \/ \E key \in CacheKeys : DelOp(key)
  \/ \E key \in CacheKeys : Expires(key)
  \/ RedisFails
  \/ RedisRecovers

SpecCache == InitCache /\ [][NextCache]_vars

(***************************************************************************)
(* Properties of the cache key.                                            *)
(***************************************************************************)
\* the inputs i and j are the same structures, whatever order their
\* objects' fields are listed in
SameStructure(i, j) ==
  /\ kin[i].chartType = kin[j].chartType
  /\ StructEq(kin[i].data, kin[j].data)
  /\ StructEq(kin[i].options, kin[j].options)

\* C5: two inputs that are equal as structures, their objects' fields
\* listed in different orders, are given the same cache key
C5_KeyCanonicalization ==
  \A i \in 1..2 : \A j \in 1..2 :
    (kout[i] # NoKey /\ kout[j] # NoKey /\ SameStructure(i, j))
      => kout[i] = kout[j]

(***************************************************************************)
(* Properties of generateChart.                                            *)
(***************************************************************************)
\* the call in place c is one of the service that has the cache
Cached(c) == calls[c].cacheKey # NoKey

\* the call in place c takes a step
Steps(c) == calls'[c] # calls[c]

\* the processes launched for the call in place c
Launched(c) == {p \in procs : p.owner = c}

\* C1: when the lookup of a call finds an entry, the call returns the
\* entry's bytes, and the backend is launched neither before nor after
C1_CacheShortCircuit ==
  [][\A c \in Calls :
       LET g == RedisGet(redisUp, cache, calls[c].cacheKey).val
       IN (calls[c].pc = "get" /\ Steps(c) /\ isAvailable(redisUp).val
           /\ g.some)
            => /\ calls'[c].pc = "done"
               /\ calls'[c].pending = "return"
               /\ calls'[c].result = g
               /\ calls[c].launches = 0
               /\ calls'[c].launches = 0
               /\ calls'[c].browser = 0
               /\ procs' = procs
               /\ Launched(c) = {}]_vars

C1_Witness ==
  \E c \in Calls :
    /\ calls[c].pc = "done"
    /\ calls[c].cachedChart.some
    /\ calls[c].result = calls[c].cachedChart
    /\ calls[c].launches = 0

\* the errors the backend's steps end a call with
BackendFailures ==
  BackendErrors
    \cup {<<"Screenshot failed: ">> \o e : e \in BackendErrors}
    \cup {<<"Failed to render chart after ", "3", " attempts">>}

\* the errors the building of the configuration ends a call with
ConfigFailures == {TypeErrorReading(t) : t \in ChartTypes}

\* the picture of what the call in place c was asked for
Rendered(c) ==
  SomeBuffer(PngOf(generateHtmlContent(
    createChartJsConfig(calls[c].chartType, calls[c].data,
                        ConfigOptions(calls[c].options)).val,
    calls[c].options)))

\* C2: with the cache failing, each cache step of a call leads on to the
\* render or to the return of the rendered bytes; a call that throws
\* throws an error of the backend or of the building of the
\* configuration, and a call that rendered returns the picture
C2_CacheFailureTransparency ==
  /\ [](\A c \in Calls :
          (Cached(c) /\ calls[c].pending = "throw")
            => /\ calls[c].launches = 1
               /\ calls[c].errorMessage
                    \in {ErrorMessage(m) :
                          m \in BackendFailures \cup ConfigFailures})
  /\ [](\A c \in Calls :
          (Cached(c) /\ calls[c].pc = "done" /\ calls[c].launches = 1)
            => calls[c].result = Rendered(c))
  /\ [][\A c \in Calls :
          (~redisUp /\ Steps(c))
            => /\ calls[c].pc \in {"probe", "get"}
                    => calls'[c].pc = "launch"
               /\ calls[c].pc \in {"probe2", "set"}
                    => /\ calls'[c].pc = "close"
                       /\ calls'[c].pending = "return"
                       /\ calls'[c].result = Rendered(c)]_vars

C2_Witness ==
  \E c \in Calls :
    /\ calls[c].pc = "done"
    /\ calls[c].launches = 1
    /\ ~calls[c].stored
    /\ ~redisUp
    /\ calls[c].cacheKey \notin DOMAIN cache
    /\ calls[c].result = Rendered(c)

\* C3: when a call has returned or thrown, the process launched for it has
\* had close() called once and is not open; no process is open but for a
\* call under way, and none is closed twice
C3_GuaranteedTeardown ==
  /\ \A c \in Calls :
       calls[c].pc \in {"done", "thrown"}
         => /\ \A p \in Launched(c) : ~p.open /\ p.closes = 1
            /\ calls[c].browser # 0
                 => \E p \in Launched(c) : p.pid = calls[c].browser
  /\ \A p \in procs :
       /\ p.closes <= 1
       /\ calls[p.owner].browser = p.pid
       /\ p.open => calls[p.owner].pc \notin {"idle", "done", "thrown"}

C3_Witness ==
  \E c \in Calls :
    /\ calls[c].pc = "thrown"
    /\ calls[c].browser # 0
    /\ \E p \in Launched(c) :
         p.pid = calls[c].browser /\ ~p.open /\ p.closes = 1

\* C4: a call whose every check of the render failed has made 3 checks,
\* the second and third each 1000 ms or more after the one before, fails
\* with the render-timeout error, and its process is closed once
C4_TimeoutBound ==
  \A c \in Calls :
    Cached(c) =>
      /\ calls[c].polls <= 3
      /\ calls[c].pc = "wait" => calls[c].delayMs >= 1000 * calls[c].polls
      /\ (/\ calls[c].polls > 0
          /\ calls[c].retryCount = calls[c].polls
          /\ calls[c].pc \notin {"wait", "sleep"})
           => /\ calls[c].polls = 3
              /\ calls[c].delayMs >= 2000
              /\ calls[c].pending = "throw"
              /\ calls[c].errorMessage =
                   <<"Chart generation failed: ",
                     "Failed to render chart after ", "3", " attempts">>
              /\ calls[c].pc \in {"close", "thrown", "responded"}
              /\ calls[c].pc \in {"thrown", "responded"}
                   => \A p \in Launched(c) : ~p.open /\ p.closes = 1

C4_Witness ==
  \E c \in Calls :
    /\ calls[c].pc = "thrown"
    /\ calls[c].polls = 3
    /\ calls[c].retryCount = 3
    /\ calls[c].delayMs = 2000
    /\ \E p \in Launched(c) : p.closes = 1


\* C9: a call that rendered has launched once, and with the cache
\* available stores under the key derived from its inputs an entry that
\* reads back as the bytes it returns; a call whose lookup finds the entry
\* returns the bytes last stored under its key, and launches no backend
C9_HitAfterMiss ==
  [][\A c \in Calls :
       /\ (calls[c].pc = "set" /\ Steps(c) /\ redisUp)
            => /\ calls[c].launches = 1
               /\ calls[c].cacheKey =
                    generateCacheKey(calls[c].chartType, calls[c].data,
                                     calls[c].options)
               /\ RedisGet(TRUE, cache', calls[c].cacheKey).val
                    = calls'[c].result
               /\ calls'[c].result = Rendered(c)
               /\ calls'[c].pending = "return"
       /\ (calls[c].pc = "get" /\ calls'[c].pc = "done")
            => /\ calls'[c].result
                    = SomeBuffer(written[calls[c].cacheKey].bytes)
               /\ calls'[c].result = Rendered(c)
               /\ calls'[c].launches = 0
               /\ procs' = procs]_vars

C9_Witness ==
  \E c \in Calls :
    /\ calls[c].pc = "done"
    /\ calls[c].launches = 0
    /\ calls[c].cacheKey \in DOMAIN written
    /\ written[calls[c].cacheKey].bytes # <<>>
    /\ calls[c].result = SomeBuffer(written[calls[c].cacheKey].bytes)

\* C10: of two calls under way each has a process of its own; a call past
\* its lookup is never kept from launching, whatever the other call does;
\* each call that rendered stores and returns its own picture
C10_NoSingleFlight ==
  /\ [](\A c \in Calls : \A d \in Calls \ {c} :
          calls[c].browser # 0 => calls[c].browser # calls[d].browser)
  /\ [](\A c \in Calls : calls[c].pc = "launch" => ENABLED Launch(c))
  /\ [][\A c \in Calls :
          /\ (calls[c].pc = "launch" /\ Steps(c) /\ calls'[c].browser # 0)
               => /\ \A p \in procs : p.pid # calls'[c].browser
                  /\ \E p \in procs' :
                       p.pid = calls'[c].browser /\ p.owner = c /\ p.open
          /\ (calls[c].pc = "set" /\ Steps(c) /\ redisUp)
               => /\ calls'[c].stored
                  /\ cache'[calls[c].cacheKey].val
                       = Base64Encode(calls[c].screenshotBuffer.bytes)
                  /\ calls'[c].result = calls[c].screenshotBuffer]_vars

C10_Witness ==
  \E c \in Calls : \E d \in Calls \ {c} :
    /\ calls[c].cacheKey = calls[d].cacheKey
    /\ Cached(c)
    /\ calls[c].launches = 1 /\ calls[d].launches = 1
    /\ calls[c].browser # 0 /\ calls[d].browser # 0
    /\ calls[c].browser # calls[d].browser
    /\ calls[c].stored /\ calls[d].stored
    /\ \E p \in Launched(c) : p.open

(***************************************************************************)
(* Properties of invalidateChartCache.                                     *)
(***************************************************************************)
\* the invalidation of a chart under way ends with this step, the cache
\* available
InvalidationCompletes ==
  /\ inval.pc \in {"keys", "del"}
  /\ inval'.pc = "done"
  /\ inval.pattern # FlushPattern
  /\ redisUp

\* C7: when invalidateChartCache(chartHash) completes with the cache
\* available, no entry written by rendering the chart of that hash is
\* left in the cache
C7_InvalidationForgetsChart ==
  [][InvalidationCompletes
       => \A k \in DOMAIN cache' : written'[k].via # inval.chartHash]_vars

\* text s contains text h
Contains(s, h) ==
  \E i \in 0..(Len(s) - Len(h)) : SubSeq(s, i + 1, i + Len(h)) = h

\* what follows the last ':' of a key
FinalSegment(k) ==
  LET last == CHOOSE i \in 1..Len(k) :
                k[i] = ":" /\ \A j \in (i + 1)..Len(k) : k[j] # ":"
  IN SubSeq(k, last + 1, Len(k))

\* the keys of the form chart_cache:a:b:c:d:e
IsChartKey(k) ==
  /\ k[1] = "chart_cache"
  /\ Cardinality({i \in 1..Len(k) : k[i] = ":"}) = 5

\* the cached chart keys whose final segment contains h
Targets(h) ==
  {k \in DOMAIN cache : IsChartKey(k) /\ Contains(FinalSegment(k), h)}

\* the pattern chart_cache:*:*:*:*:*h*
PatternOf(h) ==
  <<"chart_cache", ":", "*", ":", "*", ":", "*", ":", "*", ":", "*">>
    \o h \o <<"*">>

\* C8: with the cache available, the keys invalidateChartCache(h) lists
\* include every cached chart key whose final segment contains h, and the
\* listing changes nothing; after the deletion a lookup of a listed key
\* finds nothing, and every cached key that does not match
\* chart_cache:*:*:*:*:*h* is present with the bytes it had
C8_InvalidationScope ==
  [][/\ (/\ inval.pc = "keys" /\ inval'.pc # "keys"
         /\ inval.pattern # FlushPattern /\ redisUp)
          => /\ Targets(inval.chartHash) \subseteq inval'.keys
             /\ inval'.pc = "done" => Targets(inval.chartHash) = {}
             /\ cache' = cache
     /\ (/\ inval.pc = "del" /\ inval'.pc # "del"
         /\ inval.pattern # FlushPattern /\ redisUp)
          => /\ \A k \in inval.keys :
                  RedisGet(TRUE, cache', k).val = NoBuffer
             /\ \A k \in DOMAIN cache :
                  ~GlobMatch(PatternOf(inval.chartHash), k)
                    => k \in DOMAIN cache' /\ cache'[k] = cache[k]]_vars

C8_Witness ==
  /\ inval.pc = "done"
  /\ inval.pattern # FlushPattern
  /\ inval.keys # {}
  /\ \A k \in inval.keys :
       /\ Contains(FinalSegment(k), inval.chartHash)
       /\ k \notin DOMAIN cache
  /\ \E k \in DOMAIN cache : IsChartKey(k)

(***************************************************************************)
(* Properties of the backend processes.                                    *)
(***************************************************************************)
\* the calls under way that hold process p
Holders(p) ==
  {c \in Calls : calls[c].pc # "idle" /\ calls[c].browser = p.pid}

\* C11: a call has launched at most one process; an open process is held
\* by one call under way, the call that launched it; a call holds no
\* process but its own
C11_ProcessOwnership ==
  /\ \A c \in Calls :
       /\ calls[c].launches <= 1
       /\ Cardinality(Launched(c)) <= 1
       /\ calls[c].browser # 0
            => \A p \in procs : p.pid = calls[c].browser => p.owner = c
  /\ \A p \in procs :
       /\ p.open => Holders(p) = {p.owner}
       /\ \A q \in procs : q.pid = p.pid => q = p

C11_Witness ==
  \E p \in procs : \E q \in procs :
    /\ p.open /\ q.open
    /\ p.owner # q.owner
    /\ Holders(p) = {p.owner} /\ Holders(q) = {q.owner}

(***************************************************************************)
(* Properties of the cache operations.                                     *)
(***************************************************************************)
\* the command of the cache step the call in place c is at is rejected
CacheCommandFails(c) ==
  \/ calls[c].pc = "get" /\ ClientGet(redisUp, cache, calls[c].cacheKey).threw
  \/ /\ calls[c].pc = "set"
     /\ ClientSetEx(redisUp, cache, calls[c].cacheKey, 3600,
                    Base64Encode(calls[c].screenshotBuffer.bytes)).threw

\* C12: a call whose get or set fails disconnects and connects once in
\* that step, and the set is not issued again: the cache is as it was
C12_CacheRecoveryPolicy ==
  [][\A c \in Calls :
       (CacheCommandFails(c) /\ Steps(c))
         => /\ calls'[c].reconnects = calls[c].reconnects + 1
            /\ calls'[c].reconnects = 1
            /\ cache' = cache]_vars

\* C13: with the server down isAvailable gives false, get gives null, set,
\* del and delPattern change nothing, and with the server up or down no
\* method throws
C13_CacheOperationsNeverThrow ==
  \A k \in DOMAIN cache \cup KnownKeys :
    /\ ~isAvailable(redisUp).threw
    /\ isAvailable(FALSE) = [threw |-> FALSE, val |-> FALSE]
    /\ ~RedisGet(redisUp, cache, k).threw
    /\ RedisGet(FALSE, cache, k) = [threw |-> FALSE, val |-> NoBuffer]
    /\ ~RedisSet(redisUp, cache, k, <<137, 80>>, 3600).threw
    /\ RedisSet(FALSE, cache, k, <<137, 80>>, 3600)
         = [threw |-> FALSE, ok |-> FALSE, store |-> cache]
    /\ ~RedisDelKey(redisUp, cache, k).threw
    /\ RedisDelKey(FALSE, cache, k) = [threw |-> FALSE, store |-> cache]
    /\ ~delPatternKeys(redisUp, cache, PatternOf(Digest(k))).threw
    /\ ~delPatternKeys(FALSE, cache, PatternOf(Digest(k))).threw
    /\ ~delPatternDel(redisUp, cache, {k}).threw
    /\ delPatternDel(FALSE, cache, {k})
         = [threw |-> FALSE, failed |-> TRUE, store |-> cache]

C13_Witness ==
  /\ ~redisUp
  /\ \E c \in Calls :
       /\ calls[c].pc = "launch"
       /\ calls[c].cacheKey \in DOMAIN cache
       /\ RedisGet(redisUp, cache, calls[c].cacheKey).val = NoBuffer

(***************************************************************************)
(* Properties of the render section of generateChart.                      *)
(***************************************************************************)
\* C14: a call launches at most once, and no step leads back to the
\* launch; the launch, the second load of the document, a check of the
\* render and the capture each either succeed or, failing, end in a throw
\* (the check after a delay, until its third failure); a call that throws
\* returns no bytes, has stored no entry and stores none
C14_NoEngineRetry ==
  /\ [](\A c \in Calls :
          Cached(c) =>
            /\ calls[c].launches <= 1
            /\ calls[c].pending = "throw"
                 => /\ ~calls[c].result.some
                    /\ ~calls[c].stored
                    /\ calls[c].pc \notin {"probe2", "set", "done"}
            /\ calls[c].pc = "thrown" => calls[c].pending = "throw")
  /\ [][\A c \in Calls :
          (Cached(c) /\ Steps(c) /\ calls'[c].pc # "idle")
            => /\ calls[c].pc = "launch"
                    => /\ calls'[c].launches = 1
                       /\ \/ calls'[c].pc = "newPage" /\ calls'[c].browser # 0
                          \/ calls'[c].pending = "throw"
               /\ calls[c].pc = "content2"
                    => calls'[c].pc = "wait" \/ calls'[c].pending = "throw"
               /\ calls[c].pc = "wait"
                    => \/ calls'[c].pc = "shot"
                       \/ calls'[c].pc = "sleep" /\ calls'[c].retryCount < 3
                       \/ /\ calls'[c].pending = "throw"
                          /\ calls'[c].retryCount = 3
               /\ calls[c].pc = "shot"
                    => \/ /\ calls'[c].pc = "probe2"
                          /\ calls'[c].screenshotBuffer.some
                       \/ calls'[c].pending = "throw"
               /\ calls'[c].pc = "launch" => calls[c].pc \in {"probe", "get"}
               /\ calls[c].pending = "throw"
                    => calls'[c].pending = "throw" /\ cache' = cache]_vars

C14_Witness ==
  \E c \in Calls :
    /\ calls[c].pc = "thrown"
    /\ calls[c].launches = 1
    /\ calls[c].polls > 0
    /\ ~calls[c].stored
    /\ ~calls[c].result.some
    /\ calls[c].cacheKey \notin DOMAIN cache

\* the two messages of the classified backend failures
TargetClosedMessage ==
  <<"Browser target closed unexpectedly. This may be due to resource constraints or timeout.">>

ProtocolErrorMessage ==
  <<"Browser protocol error. The browser instance may have crashed.">>

\* the message a failure with underlying message m is rethrown with
Classified(m) ==
  IF Contains(m, <<"Target closed">>) THEN TargetClosedMessage
  ELSE IF Contains(m, <<"Protocol error">>) THEN ProtocolErrorMessage
  ELSE <<"Chart generation failed: ">> \o m

\* C15: a failure in the render section is rethrown with the message its
\* underlying message is classified to; a failed capture and a render
\* timeout are rethrown with a reason of their own, never with the
\* target-closed or the protocol-error message
C15_ErrorClassification ==
  [][\A c \in Calls :
       (Cached(c) /\ Steps(c) /\ calls[c].pending # "throw"
        /\ calls'[c].pending = "throw")
         => /\ \E m \in BackendFailures :
                 calls'[c].errorMessage = Classified(m)
            /\ calls[c].pc \in {"wait", "shot"}
                 => calls'[c].errorMessage
                      \notin {TargetClosedMessage, ProtocolErrorMessage}]_vars

\* C17: the document is loaded first waiting for network idle, which is
\* begun once, after the viewport; the second load, waiting for the DOM
\* content, is begun only from the first, when that failed; a failure of
\* the second load ends in a throw, and the load that succeeds leads to
\* the render wait
C17_ContentLoadFallback ==
  [][\A c \in Calls :
       (Cached(c) /\ Steps(c))
         => /\ calls[c].pc = "content"
                 => calls'[c].pc \in {"wait", "content2"}
            /\ calls[c].pc = "content2"
                 => \/ calls'[c].pc = "wait"
                    \/ /\ calls'[c].pending = "throw"
                       /\ calls'[c].pc = "close"
            /\ calls'[c].pc = "content" => calls[c].pc = "viewport"
            /\ calls'[c].pc = "content2" => calls[c].pc = "content"
            /\ calls'[c].pc = "wait"
                 => calls[c].pc \in {"content", "content2", "sleep"}]_vars

C17_Witness ==
  \E c \in Calls :
    /\ Cached(c)
    /\ calls[c].pc = "content2"
    /\ calls[c].polls = 0
    /\ \E p \in Launched(c) : p.open

\* the entries of the cache that a step writes
WrittenKeys ==
  {k \in DOMAIN cache' : k \notin DOMAIN cache \/ cache'[k] # cache[k]}

\* C18: an entry is written only by the store of a call that has its
\* capture, under the key derived from the call's inputs, with the
\* capture's bytes and a ttl of 3600; the store is begun only from the
\* second probe, when it answers true; the store returns the capture
\* whether or not the entry was written
C18_CachePopulation ==
  [][/\ \A k \in WrittenKeys :
          \E c \in Calls :
            /\ calls[c].pc = "set" /\ Steps(c)
            /\ calls[c].screenshotBuffer.some
            /\ k = calls[c].cacheKey
            /\ k = generateCacheKey(calls[c].chartType, calls[c].data,
                                    calls[c].options)
            /\ cache'[k]
                 = [val |-> Base64Encode(calls[c].screenshotBuffer.bytes),
                    ttl |-> 3600]
     /\ \A c \in Calls :
          Steps(c)
            => /\ (calls'[c].pc = "set" /\ calls[c].pc # "set")
                    => /\ calls[c].pc = "probe2"
                       /\ isAvailable(redisUp).val
                       /\ calls[c].screenshotBuffer.some
               /\ calls[c].pc = "set"
                    => /\ calls'[c].result = calls[c].screenshotBuffer
                       /\ calls'[c].pending = "return"
                       /\ ~redisUp => cache' = cache /\ ~calls'[c].stored]_vars

C18_Witness ==
  \E c \in Calls :
    /\ calls[c].stored
    /\ calls[c].cacheKey \in DOMAIN cache
    /\ cache[calls[c].cacheKey].ttl = 3600
    /\ cache[calls[c].cacheKey].val
         = Base64Encode(calls[c].screenshotBuffer.bytes)
    /\ calls[c].result = calls[c].screenshotBuffer

(***************************************************************************)
(* Properties of GET /:hash/png.                                           *)
(***************************************************************************)
\* C16: the response to a request whose generateChart threw carries the
\* message the error was classified to
C16_UserVisibleReason ==
  \A c \in Calls :
    (calls[c].pc = "responded" /\ calls[c].pending = "throw")
      => /\ calls[c].response.status = 500
         /\ Contains(calls[c].response.error, calls[c].errorMessage)


(***************************************************************************)
(* Properties of the default colours.                                      *)
(***************************************************************************)
\* the datasets of a request, and of the configuration made of it
DatasetsOf(data) == Get(data, "datasets").e

\* a dataset names no colour
Colourless(dataset) ==
  /\ Get(dataset, "backgroundColor") = JUndef
  /\ Get(dataset, "borderColor") = JUndef

\* the colour of the palette for the dataset at position i (from 0)
PaletteColour(palette, i) == palette.e[(i % Len(palette.e)) + 1]

\* C19: for a request of two datasets that name no colour, with theme
\* light, the configuration gives dataset 0 the first colour of the palette
\* and dataset 1 the second, gives both border width 2 and displays the
\* legend; and the dark palette is not the light one
C19_DefaultPaletteAssignment ==
  (/\ kout # NoConfig
   /\ Get(kin.options, "theme") = JStr(<<"light">>)
   /\ Len(DatasetsOf(kin.data)) = 2
   /\ \A i \in 1..2 : Colourless(DatasetsOf(kin.data)[i]))
    => /\ ~kout.threw
       /\ \A i \in 1..2 :
            LET dataset == DatasetsOf(Get(kout.val, "data"))[i]
            IN /\ Get(dataset, "backgroundColor")
                   = PaletteColour(LightPalette, i - 1)
               /\ Get(dataset, "borderWidth") = JNum(2)
       /\ Get(Get(Get(Get(kout.val, "options"), "plugins"), "legend"),
              "display") = JBool(TRUE)
       /\ DarkPalette # LightPalette

\* C20: whatever the theme of a request, the step that follows the viewport
\* builds the document: generateChart does not throw there
C20_ThemeDefaultsExist ==
  [][\A c \in Calls :
       (/\ calls[c].pc = "viewport"
        /\ Get(calls[c].options, "theme").s[1] \in Themes
        /\ \A i \in 1..Len(DatasetsOf(calls[c].data)) :
             Colourless(DatasetsOf(calls[c].data)[i]))
         => calls'[c].pc \in {"viewport", "content"}]_vars

\* C21: a dataset that names no border colour gets for border colour the
\* background colour the configuration gives it, the one it named or the
\* one of the palette
C21_BorderColourDefault ==
  (kout # NoConfig /\ ~kout.threw)
    => \A i \in 1..Len(DatasetsOf(kin.data)) :
         Get(DatasetsOf(kin.data)[i], "borderColor") = JUndef
           => LET dataset == DatasetsOf(Get(kout.val, "data"))[i]
              IN Get(dataset, "borderColor") = Get(dataset, "backgroundColor")

\* C22: a dataset that names no border width gets 2, and one that names a
\* width, 0 included, keeps it
C22_BorderWidthDefault ==
  (kout # NoConfig /\ ~kout.threw)
    => \A i \in 1..Len(DatasetsOf(kin.data)) :
         LET borderWidth == Get(DatasetsOf(kin.data)[i], "borderWidth")
         IN Get(DatasetsOf(Get(kout.val, "data"))[i], "borderWidth")
              = IF borderWidth = JUndef THEN JNum(2) ELSE borderWidth

(***************************************************************************)
(* Properties of the form of the cache key.                                *)
(***************************************************************************)
\* the segments of a text that ':' separates
RECURSIVE Segments(_)
Segments(text) ==
  IF \A i \in 1..Len(text) : text[i] # ":"
  THEN <<text>>
  ELSE LET i == CHOOSE j \in 1..Len(text) :
                  text[j] = ":" /\ \A k \in 1..(j - 1) : text[k] # ":"
       IN <<SubSeq(text, 1, i - 1)>>
            \o Segments(SubSeq(text, i + 1, Len(text)))

\* the inputs i and j differ in what the key shows
DifferInPrefix(i, j) ==
  \/ kin[i].chartType # kin[j].chartType
  \/ \E k \in {"width", "height", "theme"} :
       Get(kin[i].options, k) # Get(kin[j].options, k)

\* C23: a key is chart_cache, the chart type, the width, the height, the
\* theme and a digest, with ':' between them; two requests that differ in
\* chart type, width, height or theme get different keys; and every key
\* matches chart_cache:*
C23_KeyReadablePrefix ==
  /\ \A i \in 1..2 :
       kout[i] # NoKey =>
         /\ Len(Segments(kout[i])) = 6
         /\ Segments(kout[i])[1] = <<"chart_cache">>
         /\ Segments(kout[i])[2] = <<kin[i].chartType>>
         /\ Segments(kout[i])[3] = ToDecimal(Get(kin[i].options, "width").n)
         /\ Segments(kout[i])[4] = ToDecimal(Get(kin[i].options, "height").n)
         /\ Segments(kout[i])[5] = Get(kin[i].options, "theme").s
         /\ Len(Segments(kout[i])[6]) = DigestLen
         /\ \A d \in 1..DigestLen :
              \E h \in 1..16 : Segments(kout[i])[6][d] = HexDigits[h]
         /\ GlobMatch(FlushPattern, kout[i])
  /\ (kout[1] # NoKey /\ kout[2] # NoKey /\ DifferInPrefix(1, 2))
       => kout[1] # kout[2]

\* two requests that differ in theme alone have their keys, which differ
C23_Witness ==
  /\ kin[1].chartType = kin[2].chartType
  /\ kin[1].data = kin[2].data
  /\ kin[1].options = OptLight
  /\ kin[2].options = OptDim
  /\ kout[1] # NoKey
  /\ kout[2] # NoKey
  /\ kout[1] # kout[2]

(***************************************************************************)
(* Properties of invalidateAllCache.                                       *)
(***************************************************************************)
\* key k begins with chart_cache:
Prefixed(k) == Len(k) >= 2 /\ k[1] = "chart_cache" /\ k[2] = ":"

PrefixedKeys(store) == {k \in DOMAIN store : Prefixed(k)}

\* C24: with the cache available, invalidateAllCache lists every cached key
\* that begins with chart_cache: and the listing changes nothing; when no
\* entry was stored since the listing, after the deletion no key that
\* begins with chart_cache: is left, and every other key is present with
\* the entry it had
C24_GlobalFlush ==
  [][/\ (/\ inval.pc = "keys" /\ inval'.pc # "keys"
         /\ inval.pattern = FlushPattern /\ redisUp)
          => /\ cache' = cache
             /\ IF PrefixedKeys(cache) = {}
                THEN inval'.pc = "done"
                ELSE inval'.pc = "del" /\ inval'.keys = PrefixedKeys(cache)
     /\ (/\ inval.pc = "del" /\ inval'.pc # "del"
         /\ inval.pattern = FlushPattern /\ redisUp
         /\ PrefixedKeys(cache) \subseteq inval.keys)
          => /\ inval'.pc = "done"
             /\ PrefixedKeys(cache') = {}
             /\ \A k \in DOMAIN cache :
                  ~Prefixed(k) => k \in DOMAIN cache' /\ cache'[k] = cache[k]]_vars

\* a flush that listed two keys is over; no chart key is left, and the key
\* of the other user is
C24_Witness ==
  /\ inval.pc = "done"
  /\ inval.pattern = FlushPattern
  /\ Cardinality(inval.keys) = 2
  /\ PrefixedKeys(cache) = {}
  /\ ForeignKey \in DOMAIN cache

(***************************************************************************)
(* Properties of the UPDATE statement of PUT /:hash.                       *)
(***************************************************************************)
\* the parameter of the assignment to a column
ParamOf(statement, column) ==
  statement.set[CHOOSE i \in 1..Len(statement.set) :
                  statement.set[i].column = column].param

\* C28: in the statement built for a body, the parameter of the WHERE
\* clause is bound to the hash of the request, the parameter of
\* updated_at to the new time, and there are as many parameters as values
C28_UpdateTargetsNamedChart ==
  kout # NoStatement
    => /\ kout.where \in 1..Len(kout.values)
       /\ kout.values[kout.where] = JStr(kin.hash)
       /\ kout.values[ParamOf(kout, "updated_at")] = JNum(kin.date)
       /\ Cardinality(Placeholders(kout)) = Len(kout.values)

Protected == {"POST /generate", "PUT /:hash", "DELETE /:hash"}

\* the request has the key the server is configured with
Authorized(request) ==
  Truthy(apiKeyEnv) /\ request.apiKey = apiKeyEnv

Expired(row, time) == row.expires_at # JNull /\ row.expires_at.n < time

\* the request answered by this step names no chart, or a chart that has
\* expired
Gone(hash) == hash \notin DOMAIN charts \/ Expired(charts[hash], now)

\* C26: GET /:hash, /embed and /json answer 404, with no data, a hash that
\* names no chart or a chart whose expires_at is in the past, and so does
\* GET /:hash/png, which renders nothing
C26_Expiry ==
  [][/\ (http.pc = "idle" /\ http'.pc = "sent" /\ http'.route \in GetRoutes
          /\ Gone(http'.hash))
          => http'.status = 404 /\ http'.data = JNull
     /\ \A c \in Calls :
          (calls[c].pc = "idle" /\ calls'[c].pc # "idle"
             /\ calls'[c].via # NoChart /\ Gone(calls'[c].via))
            => calls'[c].pc = "responded" /\ calls'[c].response = NotFound]_vars

\* C30: while a chart that POST /generate created is in the table and has
\* not expired, GET /:hash answers 200 with the chart and GET /:hash/png
\* goes on to generateChart, whatever the body it was created from
C30_CreatedChartsRetrievable ==
  [][/\ (http.pc = "idle" /\ http'.pc = "sent" /\ http'.route \in GetRoutes
          /\ ~Gone(http'.hash))
          => http'.status = 200 /\ http'.data.row = charts[http'.hash]
     /\ \A c \in Calls :
          (calls[c].pc = "idle" /\ calls'[c].pc # "idle"
             /\ calls'[c].via # NoChart /\ ~Gone(calls'[c].via))
            => calls'[c].pc = "probe"]_vars

\* the entries of the cache that were rendered for the chart
RenderedFor(hash) == {k \in DOMAIN cache : written[k].via = hash}

\* C31: a DELETE /:hash that is past its DELETE statement, or has answered
\* 200, leaves no row of that hash; only a POST /generate answered 201
\* gives a hash a row again; and a GET of /:hash, /embed, /json or /png
\* for a hash without a row answers 404 with no chart and no image bytes,
\* whatever the cache holds
C31_DeleteIsFinal ==
  /\ []((http.route = "DELETE /:hash"
           /\ (http.pc = "invalidating" \/ http.status = 200))
          => http.hash \notin DOMAIN charts)
  /\ [][/\ \A h \in DOMAIN charts' \ DOMAIN charts :
            /\ http'.route = "POST /generate"
            /\ http'.status = 201
            /\ http'.data.chart_hash = h
        /\ (http.pc = "idle" /\ http'.pc = "sent" /\ http'.route \in GetRoutes
             /\ http'.hash \notin DOMAIN charts)
             => http'.status = 404 /\ http'.data = JNull
        /\ \A c \in Calls :
             (calls[c].pc = "idle" /\ calls'[c].pc # "idle"
                /\ calls'[c].via # NoChart
                /\ calls'[c].via \notin DOMAIN charts)
               => /\ calls'[c].pc = "responded"
                  /\ calls'[c].response.status = 404
                  /\ calls'[c].response.body = NoBuffer]_vars

\* GET /:hash/png has answered 404 for a chart that was rendered, then
\* deleted, and whose image is in the cache still
C31_Witness ==
  \E c \in Calls :
    /\ calls[c].pc = "responded"
    /\ calls[c].response.status = 404
    /\ calls[c].via \notin DOMAIN charts
    /\ RenderedFor(calls[c].via) # {}

Mutating == {"PUT /:hash", "DELETE /:hash"}

\* the request the middleware hands to the handler
Handled(request) ==
  /\ Authorized(request)
  /\ request.route = "PUT /:hash" => validUpdateBody(request.body, now)

\* C32: a step of the routes that starts an invalidation is the step of a
\* PUT or DELETE that has written to the table: the row of the DELETE is
\* gone, the UPDATE of the PUT was accepted; a PUT or DELETE the handler
\* gets for a hash without a row is answered 404 and leaves the table and
\* the invalidation as they were; and the PUT or DELETE that waited for
\* its invalidation is answered 200, whether the invalidation failed or
\* not
C32_MutationPrecedesInvalidation ==
  [][/\ (http.pc = "idle" /\ inval'.pc # "idle")
          => /\ http'.pc = "invalidating"
             /\ http'.route \in Mutating
             /\ http'.hash \in DOMAIN charts
             /\ inval'.chartHash = http'.hash
             /\ http'.route = "DELETE /:hash"
                  => http'.hash \notin DOMAIN charts'
             /\ http'.route = "PUT /:hash"
                  => LET update ==
                           ExecUpdate(charts,
                             BuildUpdateQuery(validateUpdateBody(http'.body),
                                              http'.hash, now))
                     IN ~update.threw /\ charts' = update.table
     /\ (http.pc = "idle" /\ http'.route \in Mutating /\ Handled(http')
          /\ http'.hash \notin DOMAIN charts)
          => /\ http'.pc = "sent"
             /\ http'.status = 404
             /\ charts' = charts
             /\ inval' = inval
     /\ (http.pc = "invalidating" /\ http'.pc # "invalidating")
          => /\ http'.pc = "sent"
             /\ http'.status = 200
             /\ charts' = charts]_vars

\* a DELETE has deleted its row and waits for its invalidation, which has
\* failed and returned
C32_Witness ==
  /\ http.pc = "invalidating"
  /\ http.route = "DELETE /:hash"
  /\ http.hash \notin DOMAIN charts
  /\ inval.pc = "done"
  /\ inval.failed

(***************************************************************************)
(* Termination.                                                            *)
(***************************************************************************)
\* the call is between its first await and its return or throw
InFlight(c) == calls[c].pc \notin {"idle", "done", "thrown", "responded"}

\* the call has a browser process that is running
HoldsProcess(c) == \E p \in procs : p.owner = c /\ p.open

\* C33: when every await settles, a call of generateChart that is under
\* way returns or throws, waitForSelector is awaited at most maxRetries
\* times in a call, and a browser process a call has launched is closed
C33_Termination ==
  /\ [](\A c \in Calls : calls[c].polls <= maxRetries)
  /\ \A c \in Calls :
       /\ InFlight(c) ~> (calls[c].pc \in {"done", "thrown"})
       /\ HoldsProcess(c) ~> ~HoldsProcess(c)

\* the third waitForSelector of a call has failed, and the call has
\* thrown, its browser closed
C33_Witness ==
  /\ calls[1].pc = "thrown"
  /\ calls[1].polls = maxRetries
  /\ calls[1].browser # 0
  /\ ~HoldsProcess(1)

(***************************************************************************)
(* The viewport.                                                           *)
(***************************************************************************)
\* the configuration of the call in place c cannot be built
ConfigThrows(c) ==
  createChartJsConfig(calls[c].chartType, calls[c].data,
                      ConfigOptions(calls[c].options)).threw

\* C34: the step of a call that awaits page.setViewport() leads on to the
\* loading of the document, whether setViewport failed or not, in the
\* service with the cache and in the one without; the call throws at this
\* step only when its configuration cannot be built
C34_ViewportFailureNonFatal ==
  [][\A c \in Calls :
       (calls[c].pc \in {"viewport", "plainViewport"}
          /\ calls'[c] # calls[c] /\ ~ConfigThrows(c))
         => /\ calls'[c].pc \in {"content", "plainContent"}
            /\ calls'[c].pending = "none"]_vars

(***************************************************************************)
(* Validation of the bodies.                                               *)
(***************************************************************************)
\* the row has one of the nine types, one of the three themes and a width
\* and a height that are integers from 100 to 4000
InRange(row) ==
  /\ row.chart_type \in ChartTypes
  /\ row.theme.t = "str" /\ row.theme.s \in {<<t>> : t \in Themes}
  /\ row.width.t = "num" /\ row.width.n \in 100..4000
  /\ row.height.t = "num" /\ row.height.n \in 100..4000

\* the number the property of the body writes, -1 when it writes none
NumberOf(body, k) ==
  IF ToNumber(Get(body, k)).t = "num" THEN ToNumber(Get(body, k)).n ELSE -1

\* the body names a type, a theme, a width or a height out of range
OutOfRange(body) ==
  \/ \E k \in {"width", "height"} :
       k \in Keys(body) /\ NumberOf(body, k) \notin 100..4000
  \/ "theme" \in Keys(body)
       /\ Get(body, "theme") \notin {JStr(<<t>>) : t \in Themes}
  \/ "chartType" \in Keys(body)
       /\ Get(body, "chartType") \notin {JStr(<<t>>) : t \in ChartTypes}

\* C35: every row of the table has one of the nine chart types, one of the
\* three themes and a width and a height from 100 to 4000, and a POST
\* /generate or PUT /:hash that passes the key check with a body that
\* names a value out of range, or a POST without a chart type, is answered
\* 400 and leaves the table as it was
C35_StoredDimensionsInRange ==
  /\ [](\A h \in DOMAIN charts : InRange(charts[h]))
  /\ [][(http.pc = "idle" /\ http'.route \in {"POST /generate", "PUT /:hash"}
          /\ Authorized(http')
          /\ (OutOfRange(http'.body)
                \/ (http'.route = "POST /generate"
                      /\ "chartType" \notin Keys(http'.body))))
          => /\ http'.pc = "sent"
             /\ http'.status = 400
             /\ charts' = charts
             /\ inval' = inval]_vars

\* a chart was created from a body whose height was sent as text, and its
\* row has the number; another has the least width and greatest height
C35_Witness ==
  /\ \E h \in DOMAIN charts : charts[h].height = JNum(1200)
  /\ \E h \in DOMAIN charts :
       charts[h].width = JNum(100) /\ charts[h].height = JNum(4000)

\* C36: a PUT /:hash that passes the key check with a body that has none
\* of the properties that can be updated is answered 400, writes nothing
\* and starts no invalidation
C36_EmptyUpdateRejected ==
  [][(http.pc = "idle" /\ http'.route = "PUT /:hash" /\ Authorized(http')
        /\ Keys(http'.body) \cap {UpdateColumns[i].key :
                                    i \in 1..Len(UpdateColumns)} = {})
        => /\ http'.pc = "sent"
           /\ http'.status = 400
           /\ charts' = charts
           /\ inval' = inval]_vars

(***************************************************************************)
(* The values of the cache.                                                *)
(***************************************************************************)
\* this step is get(key)
IsGet(key) == kin'.op = "get" /\ kin'.n # kin.n /\ kin'.key = key

\* C37, as the claim has it: the get(k) that follows set(k, v), with no
\* other operation on the cache between the two, returns v
C37_RoundTripWhateverTheServer ==
  [][\A k \in CacheKeys :
       (IsGet(k) /\ kin.op = "set" /\ kin.key = k)
         => kout' = SomeBuffer(kin.value)]_vars

\* C37: while the server accepts the commands, get(k) returns the bytes
\* of the last set(k, v), when the entry was not deleted, overwritten or
\* expired since, and returns absent for a key that was never set, or was
\* deleted or has expired; a get the server does not answer returns absent
C37_CacheValueRoundTrip ==
  [][\A k \in CacheKeys :
       IsGet(k)
         => /\ (redisUp /\ k \in DOMAIN cache)
                 => kout' = SomeBuffer(written[k].bytes)
            /\ (redisUp /\ kin.op = "set" /\ kin.key = k
                  /\ k \in DOMAIN cache /\ written[k].bytes = kin.value)
                 => kout' = SomeBuffer(kin.value)
            /\ (~redisUp \/ k \notin DOMAIN cache) => kout' = NoBuffer]_vars

\* get has returned the two bytes that were set under the key two
\* operations before it, a set of the other key between the two
C37_Witness ==
  /\ kin.op = "get"
  /\ kout = SomeBuffer(<<255, 0>>)
  /\ \E k \in CacheKeys \ {kin.key} :
       k \in DOMAIN cache /\ written[k].bytes = <<0, 255, 77>>
(***************************************************************************)
(* C38  Access logging                                                     *)
(***************************************************************************)
\* the row the claim expects of a GET of the route for the hash
ExpectedLog(route, hash) ==
  [chart_id |-> ChartId(hash), access_type |-> AccessType(route)]

\* C38: when a GET of /:hash, /png, /embed or /json has been answered 200,
\* the request has inserted exactly one access-log row, whose access_type
\* is that of the endpoint and whose chart_id is the id of the chart
\* served; when it has been answered 404 it has inserted no row
C38_AccessLogging ==
  /\ (http.pc = "sent" /\ http.route \in GetRoutes) =>
       /\ http.status = 200 =>
            accessLogs[0] = <<ExpectedLog(http.route, http.hash)>>
       /\ http.status = 404 => accessLogs[0] = <<>>
  /\ \A c \in Calls :
       (calls[c].pc = "responded" /\ calls[c].via # NoChart) =>
         /\ calls[c].response.status = 200 =>
              accessLogs[c] = <<ExpectedLog("GET /:hash/png", calls[c].via)>>
         /\ calls[c].response.status = 404 => accessLogs[c] = <<>>

====
